---------------------------- MODULE Spec2Model ----------------------------
(***************************************************************************)
(* Model of the daemon-based FasterWhisperService (the supervisor of the   *)
(* persistent transcription worker): spawn, readiness detection on stderr, *)
(* newline-delimited request/response matching over stdin/stdout, the 30 s *)
(* per-request timeout, exit handling with the 5 s delayed restart, the    *)
(* readiness polling of transcribeFile and shutdown(); and of the chunked  *)
(* transcription of WhisperService (transcribeFile, transcribeInChunks).   *)
(*                                                                         *)
(* Text is a sequence of one-character strings.  A response of the worker  *)
(* is a JSON text followed by "\n"; the JSON texts of the model are the    *)
(* number literals over the digits 1..9, so that JSON.parse, trim and      *)
(* split are computed on the characters as the code computes them.         *)
(***************************************************************************)
EXTENDS Integers, Sequences, FiniteSets, TLC

VARIABLES
    daemon,        \* this.daemon: 0 is null, p > 0 the p-th spawned process
    isReady,       \* this.isReady
    requestQueue,  \* this.requestQueue: <<[request, id]>>, id names the promise
    timers,        \* armed setTimeout callbacks, in arming order
    procs,         \* the spawned processes with their pipes and closures
    outcome,       \* per sendRequest promise: how it was settled
    result,        \* per promise: the value it was resolved with
    accepted,      \* ids pushed on requestQueue, in push order
    handled,       \* the calls of handleResponse so far: <<[line, id]>>
    lastBatch,     \* handleResponse calls made by the latest stdout event
    pendingAtCrash,\* unsettled ids that were queued when a worker crashed
    shutdownCalled \* shutdown() has been called

svcVars == <<daemon, isReady, requestQueue, timers, procs, outcome, result,
             accepted, handled, lastBatch, pendingAtCrash, shutdownCalled>>

\* FasterWhisperService.transcribeFile calls that wait for isReady.
VARIABLES
    polls,         \* per call: [pc, retries, filePath] of its waiting loop
    pollTimers     \* calls with an armed 100 ms timer, in arming order

pollVars == <<polls, pollTimers>>

\* One WhisperService.transcribeFile call.
VARIABLES
    pc,                 \* where the call is
    audioData,          \* audioData.length, in samples
    start,              \* the loop variable of transcribeInChunks
    allText,            \* the accumulated text, as its words
    allSegments,        \* the accumulated segments
    currentOffset,      \* in seconds
    previousChunkText,  \* as its words
    windows,            \* the (start, end) pairs of the loop iterations so far
    backendCalls,       \* the calls of this.transcriber so far
    transcriptionResult \* what the call returned

stitchVars == <<pc, audioData, start, allText, allSegments, currentOffset,
                previousChunkText, windows, backendCalls, transcriptionResult>>

\* One call of a text function of WhisperService (calculateSimilarity,
\* isRepetitiveText, removeRepetitiveText, cleanFinalText).
VARIABLES
    textCall,      \* the function called and its arguments
    textResult     \* what it returned

textVars == <<textCall, textResult>>

\* The model of one WhisperService instance and the calls that need it.
VARIABLES
    modelLoaded,   \* this.modelLoaded
    transcriber,   \* this.transcriber: 0 is null, n > 0 the n-th pipeline
    pipelines,     \* the pipeline() calls so far: "loading", "loaded", "failed"
    callers        \* per call of the service: [op, pc, pipeline]

loadVars == <<modelLoaded, transcriber, pipelines, callers>>

\* One AudioRecorder: its encoder processes (ffmpeg), the auto-stop timers of
\* startRecording and the stopRecording calls in progress.
VARIABLES
    recordingProcess,  \* this.recordingProcess: 0 is null, n > 0 encoders[n]
    currentSession,    \* this.currentSession: 0 is null, n > 0 the session id
    onStopCallback,    \* whether setStopCallback has set this.onStopCallback
    encoders,          \* per spawned ffmpeg: [session, alive]
    autoStopTimers,    \* the armed auto-stop timers: [session] that armed it
    stopCalls,         \* per stopRecording call: [timer, process, sessionId, pc]
    stopCallbacks,     \* the calls of onStopCallback: [timer, sessionId]
    lastStart          \* how the latest startRecording call ended

recorderVars == <<recordingProcess, currentSession, onStopCallback, encoders,
                  autoStopTimers, stopCalls, stopCallbacks, lastStart>>

\* One SystemAudioRecorder.
VARIABLES
    systemRecordingProcess,  \* this.recordingProcess: 0 is null
    systemCurrentSession,    \* this.currentSession: 0 is null
    systemSessions,          \* the number of session ids generated so far
    systemEncoders,          \* per spawned ffmpeg: [session, alive]
    micCalls,                \* per startMicrophoneRecording call: [session, pc]
    systemStopCalls,         \* per stopRecording call: [process, pc]
    systemLastStart          \* how the latest start call ended

systemVars == <<systemRecordingProcess, systemCurrentSession, systemSessions,
                systemEncoders, micCalls, systemStopCalls, systemLastStart>>

\* One RealtimeRecordingService.
VARIABLES
    isRecording,       \* this.isRecording
    mediaRecorder,     \* "null", or the state of this.mediaRecorder
    audioChunks,       \* this.audioChunks: the chunks buffered, by number
    chunksDelivered,   \* the chunks given to ondataavailable so far
    segmentCalls       \* per processSegment call: [blob, pc, again, stop]

realtimeVars == <<isRecording, mediaRecorder, audioChunks, chunksDelivered,
                  segmentCalls>>

audioVars == <<recorderVars, systemVars, realtimeVars>>

vars == <<svcVars, pollVars, stitchVars, textVars, loadVars, audioVars>>

(***************************************************************************)
(* Bounds of the model.                                                    *)
(***************************************************************************)
MaxCalls == 2

MaxSpawns == 2

MaxStream == 4

\* transcribeFile calls that may wait for isReady
MaxWaiting == 1

\* audio buffers of up to this many windows of transcribeInChunks
MaxWindows == 3

\* calculateSimilarity on strings of up to this many characters
MaxSimilarityChars == 3

\* isRepetitiveText on texts of up to this many words
MaxRepetitionWords == 5

\* removeRepetitiveText on texts of up to this many words
MaxOverlapWords == 4

\* cleanFinalText on strings of up to this many characters
MaxCleanupChars == 5

\* and on texts of up to this many sentences
MaxSentences == 4

\* calls of one WhisperService that need the model
MaxServiceCalls == 3

Paths == {"a.wav", "b.wav"}

(***************************************************************************)
(* Program constants.                                                      *)
(***************************************************************************)
RequestTimeoutMs == 30000

RestartDelayMs == 5000

\* transcribeFile: while (!this.isReady && retries < 50), 100 ms a turn
MaxRetries == 50

NL == "\n"

SP == " "

Digit == <<"1", "2", "3", "4", "5", "6", "7", "8", "9">>

Digits == {Digit[i] : i \in 1..9}

\* The readiness marker 'Whisper Daemon ready for requests', as two characters.
Marker == <<"R", "D">>

Calls == 1..MaxCalls

(***************************************************************************)
(* String functions of the JavaScript runtime, on sequences of characters. *)
(***************************************************************************)
IsSpace(c) == c \in {SP, NL}

RECURSIVE TrimStart(_)
TrimStart(s) ==
    IF s # <<>> /\ IsSpace(Head(s)) THEN TrimStart(Tail(s)) ELSE s

RECURSIVE TrimEnd(_)
TrimEnd(s) ==
    IF s # <<>> /\ IsSpace(s[Len(s)])
    THEN TrimEnd(SubSeq(s, 1, Len(s) - 1))
    ELSE s

\* String.prototype.trim
Trim(s) == TrimEnd(TrimStart(s))

\* s.split('\n'): the pieces between the newlines, one more than the newlines.
RECURSIVE Split(_)
Split(s) ==
    IF \A i \in 1..Len(s) : s[i] # NL
    THEN <<s>>
    ELSE LET i == CHOOSE j \in 1..Len(s) :
                     s[j] = NL /\ \A k \in 1..(j - 1) : s[k] # NL
         IN  <<SubSeq(s, 1, i - 1)>> \o Split(SubSeq(s, i + 1, Len(s)))

\* message.includes(marker)
Includes(message, marker) ==
    \E i \in 0..(Len(message) - Len(marker)) :
        SubSeq(message, i + 1, i + Len(marker)) = marker

\* JSON.parse on the texts of the model: a number literal parses to itself,
\* anything else (a space inside, a junk character, nothing) throws.
ParseJSON(text) ==
    IF text # <<>> /\ \A i \in 1..Len(text) : text[i] \in Digits
    THEN [ok |-> TRUE, value |-> text]
    ELSE [ok |-> FALSE, value |-> <<>>]

\* Fault variant of FindIndex: the last matching entry instead of the first.
FindLastIndex(queue, audioPath) ==
    IF \E i \in 1..Len(queue) : queue[i].request = audioPath
    THEN CHOOSE i \in 1..Len(queue) :
             /\ queue[i].request = audioPath
             /\ \A j \in (i + 1)..Len(queue) : queue[j].request # audioPath
    ELSE 0

\* Array.prototype.findIndex(item => item.request === audioPath); 0 for -1.
FindIndex(queue, audioPath) ==
    IF \E i \in 1..Len(queue) : queue[i].request = audioPath
    THEN CHOOSE i \in 1..Len(queue) :
             /\ queue[i].request = audioPath
             /\ \A j \in 1..(i - 1) : queue[j].request # audioPath
    ELSE 0

\* Array.prototype.splice(i, 1)
RemoveAt(s, i) == SubSeq(s, 1, i - 1) \o SubSeq(s, i + 1, Len(s))

\* resolve/reject of a promise: only the first call settles it.
Settle(oc, id, how) == IF oc[id] = "pending" THEN [oc EXCEPT ![id] = how] ELSE oc

SetResult(oc, res, id, value) ==
    IF oc[id] = "pending" THEN [res EXCEPT ![id] = value] ELSE res

\* The ids of a set whose promises are still unsettled.
StillPending(ids, oc) == {id \in ids : oc[id] = "pending"}

(***************************************************************************)
(* startDaemon: spawn and the closures' buffers.                           *)
(***************************************************************************)
NewProc ==
    [alive |-> TRUE, loaded |-> FALSE, exitSeen |-> FALSE, failed |-> FALSE,
     stdin |-> <<>>, stdout |-> <<>>, stderr |-> <<>>,
     stdoutBuffer |-> <<>>, consumed |-> <<>>]

\* The state after the constructor, which calls startDaemon.
Init ==
    /\ procs = <<NewProc>>
    /\ daemon = 1
    /\ isReady = FALSE
    /\ requestQueue = <<>>
    /\ timers = <<>>
    /\ outcome = [k \in Calls |-> "unused"]
    /\ result = [k \in Calls |-> <<>>]
    /\ accepted = <<>>
    /\ handled = <<>>
    /\ lastBatch = 0
    /\ pendingAtCrash = {}
    /\ shutdownCalled = FALSE
    /\ polls = [k \in Calls |-> [pc |-> "idle", retries |-> 0, filePath |-> ""]]
    /\ pollTimers = <<>>
    /\ pc = "idle"
    /\ audioData = 0
    /\ start = 0
    /\ allText = <<>>
    /\ allSegments = <<>>
    /\ currentOffset = 0
    /\ previousChunkText = <<>>
    /\ windows = <<>>
    /\ backendCalls = <<>>
    /\ transcriptionResult = [kind |-> "none"]
    /\ textCall = [fn |-> "none"]
    /\ textResult = <<>>
    /\ modelLoaded = FALSE
    /\ transcriber = 0
    /\ pipelines = <<>>
    /\ callers = <<>>
    /\ recordingProcess = 0
    /\ currentSession = 0
    /\ onStopCallback = FALSE
    /\ encoders = <<>>
    /\ autoStopTimers = <<>>
    /\ stopCalls = <<>>
    /\ stopCallbacks = <<>>
    /\ lastStart = "none"
    /\ systemRecordingProcess = 0
    /\ systemCurrentSession = 0
    /\ systemSessions = 0
    /\ systemEncoders = <<>>
    /\ micCalls = <<>>
    /\ systemStopCalls = <<>>
    /\ systemLastStart = "none"
    /\ isRecording = FALSE
    /\ mediaRecorder = "null"
    /\ audioChunks = <<>>
    /\ chunksDelivered = <<>>
    /\ segmentCalls = <<>>

\* startDaemon (the restart callback's call): spawn a new worker.
StartDaemon ==
    /\ procs' = Append(procs, NewProc)
    /\ daemon' = Len(procs) + 1

\* Fault variant of HandleResponse: dequeues the newest entry (pop), not the
\* oldest (shift).
HandleResponseNewest(st, response) ==
    LET parsed == ParseJSON(response) IN
    IF st.queue = <<>>
    THEN [st EXCEPT !.handled = Append(@, [line |-> response, id |-> 0])]
    ELSE LET id == st.queue[Len(st.queue)].id IN
         [queue   |-> SubSeq(st.queue, 1, Len(st.queue) - 1),
          outcome |-> Settle(st.outcome, id,
                             IF parsed.ok THEN "resolved" ELSE "invalid"),
          result  |-> IF parsed.ok
                      THEN SetResult(st.outcome, st.result, id, parsed.value)
                      ELSE st.result,
          handled |-> Append(st.handled, [line |-> response, id |-> id])]

(***************************************************************************)
(* handleResponse, on the state it reads and writes:                       *)
(* st = [queue, outcome, result, handled].                                 *)
(***************************************************************************)
HandleResponse(st, response) ==
    LET parsed == ParseJSON(response) IN
    IF st.queue = <<>>
    THEN [st EXCEPT !.handled = Append(@, [line |-> response, id |-> 0])]
    ELSE LET id == Head(st.queue).id IN
         [queue   |-> Tail(st.queue),
          outcome |-> Settle(st.outcome, id,
                             IF parsed.ok THEN "resolved" ELSE "invalid"),
          result  |-> IF parsed.ok
                      THEN SetResult(st.outcome, st.result, id, parsed.value)
                      ELSE st.result,
          handled |-> Append(st.handled, [line |-> response, id |-> id])]

\* Fault variant of StdoutLines: the unterminated last piece is not kept.
StdoutLinesNoRest(stdoutBuffer, chunk) ==
    LET lines == Split(stdoutBuffer \o chunk) IN
    [lines |-> SubSeq(lines, 1, Len(lines) - 1),
     rest  |-> <<>>]

\* The stdout handler's buffer step: append the chunk, split on newlines,
\* keep the last piece (lines.pop() || '') as the new buffer.
StdoutLines(stdoutBuffer, chunk) ==
    LET lines == Split(stdoutBuffer \o chunk) IN
    [lines |-> SubSeq(lines, 1, Len(lines) - 1),
     rest  |-> lines[Len(lines)]]

\* for (const line of lines) if (line.trim()) this.handleResponse(line.trim())
RECURSIVE HandleLines(_, _)
HandleLines(st, lines) ==
    IF lines = <<>>
    THEN st
    ELSE HandleLines(IF Trim(Head(lines)) # <<>>
                     THEN HandleResponse(st, Trim(Head(lines)))
                     ELSE st,
                     Tail(lines))

\* daemon.stdout 'data' with the first n characters waiting in the pipe.
\* Data of a worker that has exited may still be delivered.
OnStdoutData(p, n) ==
    /\ n \in 1..Len(procs[p].stdout)
    /\ LET chunk == SubSeq(procs[p].stdout, 1, n)
           split == StdoutLines(procs[p].stdoutBuffer, chunk)
           st0   == [queue |-> requestQueue, outcome |-> outcome,
                     result |-> result, handled |-> handled]
           st    == HandleLines(st0, split.lines)
       IN  /\ procs' = [procs EXCEPT
                  ![p].stdout = SubSeq(@, n + 1, Len(@)),
                  ![p].stdoutBuffer = split.rest,
                  ![p].consumed = @ \o chunk]
           /\ requestQueue' = st.queue
           /\ outcome' = st.outcome
           /\ result' = st.result
           /\ handled' = st.handled
           /\ lastBatch' = Len(st.handled) - Len(handled)
           /\ pendingAtCrash' = StillPending(pendingAtCrash, st.outcome)
    /\ UNCHANGED <<daemon, isReady, timers, accepted, shutdownCalled>>
    /\ UNCHANGED <<pollVars, stitchVars, textVars, loadVars, audioVars>>

\* daemon.stderr 'data' with the first n characters waiting in the pipe.
\* Data of a worker that has exited may still be delivered.
OnStderrData(p, n) ==
    /\ n \in 1..Len(procs[p].stderr)
    /\ LET message == SubSeq(procs[p].stderr, 1, n) IN
       isReady' = IF Includes(message, Marker) THEN TRUE ELSE isReady
    /\ procs' = [procs EXCEPT ![p].stderr = SubSeq(@, n + 1, Len(@))]
    /\ UNCHANGED <<daemon, requestQueue, timers, outcome, result, accepted,
                   handled, lastBatch, pendingAtCrash, shutdownCalled>>
    /\ UNCHANGED <<pollVars, stitchVars, textVars, loadVars, audioVars>>

\* Fault variant of OnExit: the restart is armed twice.
OnExitArmsTwice(p) ==
    /\ ~procs[p].alive
    /\ ~procs[p].exitSeen
    /\ ~procs[p].failed
    /\ isReady' = FALSE
    /\ daemon' = 0
    /\ timers' = timers \o <<[kind |-> "restart", id |-> 0, request |-> ""],
                             [kind |-> "restart", id |-> 0, request |-> ""]>>
    /\ procs' = [procs EXCEPT ![p].exitSeen = TRUE]
    /\ UNCHANGED <<requestQueue, outcome, result, accepted, handled,
                   lastBatch, pendingAtCrash, shutdownCalled>>
    /\ UNCHANGED <<pollVars, stitchVars, textVars, loadVars, audioVars>>

\* daemon 'exit'
OnExit(p) ==
    /\ ~procs[p].alive
    /\ ~procs[p].exitSeen
    /\ ~procs[p].failed
    /\ isReady' = FALSE
    /\ daemon' = 0
    /\ timers' = Append(timers, [kind |-> "restart", id |-> 0, request |-> ""])
    /\ procs' = [procs EXCEPT ![p].exitSeen = TRUE]
    /\ UNCHANGED <<requestQueue, outcome, result, accepted, handled,
                   lastBatch, pendingAtCrash, shutdownCalled>>
    /\ UNCHANGED <<pollVars, stitchVars, textVars, loadVars, audioVars>>

\* Fault variant of SendRequest: no check of the handle and of isReady.
SendRequestUnchecked(id, audioPath) ==
    /\ requestQueue' = Append(requestQueue, [request |-> audioPath, id |-> id])
    /\ accepted' = Append(accepted, id)
    /\ outcome' = [outcome EXCEPT ![id] = "pending"]
    /\ procs' = IF daemon # 0 /\ procs[daemon].alive
                THEN [procs EXCEPT ![daemon].stdin = Append(@, id)]
                ELSE procs
    /\ timers' = Append(timers, [kind |-> "timeout", id |-> id,
                                 request |-> audioPath])

(***************************************************************************)
(* sendRequest for promise id, and transcribeFile.                         *)
(***************************************************************************)
SendRequest(id, audioPath) ==
    IF daemon = 0 \/ ~isReady
    THEN /\ outcome' = [outcome EXCEPT ![id] = "notReady"]
         /\ UNCHANGED <<requestQueue, procs, timers, accepted>>
    ELSE /\ requestQueue' = Append(requestQueue,
                                   [request |-> audioPath, id |-> id])
         /\ accepted' = Append(accepted, id)
         /\ outcome' = [outcome EXCEPT ![id] = "pending"]
            \* stdin.write: a line written to a dead process is never read
         /\ procs' = IF procs[daemon].alive
                     THEN [procs EXCEPT ![daemon].stdin = Append(@, id)]
                     ELSE procs
         /\ timers' = Append(timers, [kind |-> "timeout", id |-> id,
                                      request |-> audioPath])

NumCalls == Cardinality({k \in Calls : outcome[k] # "unused"})

\* transcribeFile: the waiting loop reads isReady only; the call goes on to
\* sendRequest, in the same turn, once it has seen isReady true.
TranscribeFile(filePath) ==
    /\ NumCalls < MaxCalls
    /\ isReady
    /\ SendRequest(NumCalls + 1, filePath)
    /\ UNCHANGED <<daemon, isReady, result, handled, lastBatch,
                   pendingAtCrash, shutdownCalled>>
    /\ UNCHANGED <<pollVars, stitchVars, textVars, loadVars, audioVars>>

(***************************************************************************)
(* transcribeFile with its waiting loop.  A call that finds isReady false  *)
(* sleeps 100 ms and counts the turn, up to 50 turns; the continuation of  *)
(* a sleep runs in the turn of its timer.  The 100 ms timers all have the  *)
(* same delay, so they fire in arming order: pollTimers is a queue.        *)
(***************************************************************************)
NumStarted ==
    Cardinality({k \in Calls : outcome[k] # "unused" \/ polls[k].pc # "idle"})

\* Fault variant of WaitLoop: one more turn than the limit.
WaitLoopOneMore(id, filePath, retries) ==
    IF ~isReady /\ retries <= MaxRetries
    THEN /\ polls' = [polls EXCEPT ![id] = [pc |-> "waiting",
                           retries |-> retries, filePath |-> filePath]]
         /\ pollTimers' = Append(SelectSeq(pollTimers, LAMBDA k : k # id), id)
         /\ UNCHANGED svcVars
    ELSE /\ polls' = [polls EXCEPT ![id] = [pc |-> "done",
                           retries |-> retries, filePath |-> filePath]]
         /\ pollTimers' = SelectSeq(pollTimers, LAMBDA k : k # id)
         /\ IF ~isReady
            THEN /\ outcome' = [outcome EXCEPT ![id] = "notReadyAfterWaiting"]
                 /\ UNCHANGED <<requestQueue, procs, timers, accepted>>
            ELSE SendRequest(id, filePath)
         /\ UNCHANGED <<daemon, isReady, result, handled, lastBatch,
                        pendingAtCrash, shutdownCalled>>

\* The call from the test of the while loop on, retries turns counted:
\* another sleep, or the throw, or sendRequest.
WaitLoop(id, filePath, retries) ==
    IF ~isReady /\ retries < MaxRetries
    THEN /\ polls' = [polls EXCEPT ![id] = [pc |-> "waiting",
                           retries |-> retries, filePath |-> filePath]]
         /\ pollTimers' = Append(SelectSeq(pollTimers, LAMBDA k : k # id), id)
         /\ UNCHANGED svcVars
    ELSE /\ polls' = [polls EXCEPT ![id] = [pc |-> "done",
                           retries |-> retries, filePath |-> filePath]]
         /\ pollTimers' = SelectSeq(pollTimers, LAMBDA k : k # id)
         /\ IF ~isReady
            THEN /\ outcome' = [outcome EXCEPT ![id] = "notReadyAfterWaiting"]
                 /\ UNCHANGED <<requestQueue, procs, timers, accepted>>
            ELSE SendRequest(id, filePath)
         /\ UNCHANGED <<daemon, isReady, result, handled, lastBatch,
                        pendingAtCrash, shutdownCalled>>

\* transcribeFile is called: retries = 0 and the first test of the loop.
TranscribeFileWaiting(filePath) ==
    /\ NumStarted < MaxWaiting
    /\ NumStarted < MaxCalls
    /\ WaitLoop(NumStarted + 1, filePath, 0)
    /\ UNCHANGED <<stitchVars, textVars, loadVars, audioVars>>

\* The 100 ms timer armed first fires: retries++ and the test again.
PollWake ==
    /\ pollTimers # <<>>
    /\ LET id == Head(pollTimers) IN
       WaitLoop(id, polls[id].filePath, polls[id].retries + 1)
    /\ UNCHANGED <<stitchVars, textVars, loadVars, audioVars>>

(***************************************************************************)
(* Timers.  Node fires timers in order of expiry: a timer cannot fire      *)
(* while one armed before it with the same or a shorter delay is armed.    *)
(***************************************************************************)
Delay(t) == IF t.kind = "timeout" THEN RequestTimeoutMs ELSE RestartDelayMs

CanFire(i) == \A j \in 1..(i - 1) : Delay(timers[j]) > Delay(timers[i])

\* The 30 s callback of sendRequest.
TimeoutCallback(t) ==
    LET queueIndex == FindIndex(requestQueue, t.request) IN
    IF queueIndex # 0
    THEN /\ requestQueue' = RemoveAt(requestQueue, queueIndex)
         /\ outcome' = Settle(outcome, t.id, "timeout")
    ELSE UNCHANGED <<requestQueue, outcome>>

\* The i-th armed timer is a request timeout, and fires.
TimeoutFire(i) ==
    /\ i \in 1..Len(timers)
    /\ timers[i].kind = "timeout"
    /\ CanFire(i)
    /\ timers' = RemoveAt(timers, i)
    /\ TimeoutCallback(timers[i])
    /\ pendingAtCrash' = StillPending(pendingAtCrash, outcome')
    /\ UNCHANGED <<daemon, isReady, procs, result, accepted, handled,
                   lastBatch, shutdownCalled>>
    /\ UNCHANGED <<pollVars, stitchVars, textVars, loadVars, audioVars>>

\* The i-th armed timer is the delayed restart of the exit handler, and fires.
RestartFire(i) ==
    /\ i \in 1..Len(timers)
    /\ timers[i].kind = "restart"
    /\ CanFire(i)
    /\ timers' = RemoveAt(timers, i)
    /\ StartDaemon
    /\ UNCHANGED <<isReady, requestQueue, outcome, result, accepted, handled,
                   lastBatch, pendingAtCrash, shutdownCalled>>
    /\ UNCHANGED <<pollVars, stitchVars, textVars, loadVars, audioVars>>

\* shutdown().  kill('SIGTERM') makes the worker end: that is WorkerDie, which
\* may follow at any time.
Shutdown ==
    /\ IF daemon # 0
       THEN /\ daemon' = 0
            /\ isReady' = FALSE
       ELSE UNCHANGED <<daemon, isReady>>
    /\ shutdownCalled' = TRUE
    /\ UNCHANGED <<procs, requestQueue, timers, outcome, result, accepted,
                   handled, lastBatch, pendingAtCrash>>
    /\ UNCHANGED <<pollVars, stitchVars, textVars, loadVars, audioVars>>

(***************************************************************************)
(* The worker process (whisper_daemon.py), from the wire protocol: it      *)
(* writes the readiness marker once its model is loaded, then answers the  *)
(* request lines in the order it reads them, one response line each.       *)
(***************************************************************************)
WorkerEmitMarker(p) ==
    /\ procs[p].alive
    /\ ~procs[p].loaded
    /\ procs' = [procs EXCEPT ![p].loaded = TRUE, ![p].stderr = @ \o Marker]
    /\ UNCHANGED <<daemon, isReady, requestQueue, timers, outcome, result,
                   accepted, handled, lastBatch, pendingAtCrash,
                   shutdownCalled>>
    /\ UNCHANGED <<pollVars, stitchVars, textVars, loadVars, audioVars>>

WorkerRespond(p) ==
    /\ procs[p].alive
    /\ procs[p].loaded
    /\ procs[p].stdin # <<>>
    /\ procs' = [procs EXCEPT
           ![p].stdin = Tail(@),
           ![p].stdout = @ \o <<Digit[Head(procs[p].stdin)], NL>>]
    /\ UNCHANGED <<daemon, isReady, requestQueue, timers, outcome, result,
                   accepted, handled, lastBatch, pendingAtCrash,
                   shutdownCalled>>
    /\ UNCHANGED <<pollVars, stitchVars, textVars, loadVars, audioVars>>

\* The process ends: a crash or, with its handle cleared by shutdown(), the
\* SIGTERM taking effect.  The requests queued at a crash are remembered.
WorkerDie(p) ==
    /\ procs[p].alive
    /\ Len(procs) < MaxSpawns
    /\ procs' = [procs EXCEPT ![p].alive = FALSE, ![p].stdin = <<>>]
    /\ pendingAtCrash' =
           IF daemon = p
           THEN pendingAtCrash \cup
                {requestQueue[i].id : i \in 1..Len(requestQueue)}
           ELSE pendingAtCrash
    /\ UNCHANGED <<daemon, isReady, requestQueue, timers, outcome, result,
                   accepted, handled, lastBatch, shutdownCalled>>
    /\ UNCHANGED <<pollVars, stitchVars, textVars, loadVars, audioVars>>

\* A worker that writes any character at all to its stdout.
WorkerWrite(p, c) ==
    /\ procs[p].alive
    /\ Len(procs[p].consumed) + Len(procs[p].stdout) < MaxStream
    /\ procs' = [procs EXCEPT ![p].stdout = Append(@, c)]
    /\ UNCHANGED <<daemon, isReady, requestQueue, timers, outcome, result,
                   accepted, handled, lastBatch, pendingAtCrash,
                   shutdownCalled>>
    /\ UNCHANGED <<pollVars, stitchVars, textVars, loadVars, audioVars>>

Alphabet == {"1", "2", SP, NL}

(***************************************************************************)
(* Specifications.                                                         *)
(***************************************************************************)
Next ==
    \/ \E filePath \in Paths : TranscribeFile(filePath)
    \/ Shutdown
    \/ \E i \in 1..Len(timers) : TimeoutFire(i)
    \/ \E i \in 1..Len(timers) : RestartFire(i)
    \/ \E p \in DOMAIN procs : \E n \in 1..Len(procs[p].stdout) :
           OnStdoutData(p, n)
    \/ \E p \in DOMAIN procs : \E n \in 1..Len(procs[p].stderr) :
           OnStderrData(p, n)
    \/ \E p \in DOMAIN procs : OnExit(p)
    \/ \E p \in DOMAIN procs : WorkerEmitMarker(p)
    \/ \E p \in DOMAIN procs : WorkerRespond(p)
    \/ \E p \in DOMAIN procs : WorkerDie(p)

Spec == Init /\ [][Next]_vars

\* The stdout stream of one worker, written and split in every way.
StreamNext ==
    \/ \E filePath \in Paths : TranscribeFile(filePath)
    \/ \E p \in DOMAIN procs : \E n \in 1..Len(procs[p].stdout) :
           OnStdoutData(p, n)
    \/ \E p \in DOMAIN procs : \E n \in 1..Len(procs[p].stderr) :
           OnStderrData(p, n)
    \/ \E p \in DOMAIN procs : WorkerEmitMarker(p)
    \/ \E p \in DOMAIN procs : \E c \in Alphabet : WorkerWrite(p, c)

StreamSpec == Init /\ [][StreamNext]_vars

\* transcribeFile calls that wait for the first worker, which loads, becomes
\* ready, dies or is shut down: every combination of isReady and of a null
\* handle that the waiting loop and sendRequest can read.
PollNext ==
    \/ \E filePath \in Paths : TranscribeFileWaiting(filePath)
    \/ PollWake
    \/ Shutdown
    \/ \E p \in DOMAIN procs : \E n \in 1..Len(procs[p].stderr) :
           OnStderrData(p, n)
    \/ \E p \in DOMAIN procs : OnExit(p)
    \/ \E p \in DOMAIN procs : WorkerEmitMarker(p)
    \/ \E p \in DOMAIN procs : WorkerDie(p)

PollSpec == Init /\ [][PollNext]_vars

(***************************************************************************)
(* Spawn failure.  A child that cannot be started emits 'error' and no     *)
(* 'exit'; a spawn that throws is caught by startDaemon's catch.           *)
(***************************************************************************)
\* daemon 'error' of a child that never ran: isReady = false and nothing else.
OnError(p) ==
    /\ procs[p].alive
    /\ ~procs[p].loaded
    /\ procs[p].stdin = <<>>
    /\ procs' = [procs EXCEPT ![p].alive = FALSE, ![p].failed = TRUE]
    /\ isReady' = FALSE
    /\ UNCHANGED <<daemon, requestQueue, timers, outcome, result, accepted,
                   handled, lastBatch, pendingAtCrash, shutdownCalled>>
    /\ UNCHANGED <<pollVars, stitchVars, textVars, loadVars, audioVars>>

\* The restart timer fires and spawn throws: the catch logs, no process is
\* created and no field is assigned.
RestartFireThrows(i) ==
    /\ i \in 1..Len(timers)
    /\ timers[i].kind = "restart"
    /\ CanFire(i)
    /\ timers' = RemoveAt(timers, i)
    /\ UNCHANGED <<daemon, isReady, procs, requestQueue, outcome, result,
                   accepted, handled, lastBatch, pendingAtCrash,
                   shutdownCalled>>
    /\ UNCHANGED <<pollVars, stitchVars, textVars, loadVars, audioVars>>

\* The supervisor with workers that may fail to start.
SpawnNext ==
    \/ \E filePath \in Paths : TranscribeFile(filePath)
    \/ Shutdown
    \/ \E i \in 1..Len(timers) : TimeoutFire(i)
    \/ \E i \in 1..Len(timers) : RestartFire(i)
    \/ \E i \in 1..Len(timers) : RestartFireThrows(i)
    \/ \E p \in DOMAIN procs : \E n \in 1..Len(procs[p].stdout) :
           OnStdoutData(p, n)
    \/ \E p \in DOMAIN procs : \E n \in 1..Len(procs[p].stderr) :
           OnStderrData(p, n)
    \/ \E p \in DOMAIN procs : OnExit(p)
    \/ \E p \in DOMAIN procs : OnError(p)
    \/ \E p \in DOMAIN procs : WorkerEmitMarker(p)
    \/ \E p \in DOMAIN procs : WorkerRespond(p)
    \/ \E p \in DOMAIN procs : WorkerDie(p)

SpawnSpec == Init /\ [][SpawnNext]_vars

(***************************************************************************)
(* WhisperService (the in-process backend): transcribeFile from the        *)
(* decoded audioData on, and transcribeInChunks.                           *)
(*                                                                         *)
(* A text is the sequence of its words: the text itself is the words       *)
(* joined by single spaces.  The words of the backend are letters only     *)
(* and none is the beginning of another; the texts carry no sentence       *)
(* punctuation.  Times are whole seconds; a null or zero timestamp is 0.   *)
(***************************************************************************)
SampleRate == 16000

ChunkDurationSeconds == 120

OverlapSeconds == 5

ChunkSize == ChunkDurationSeconds * SampleRate

OverlapSize == OverlapSeconds * SampleRate

\* durationSeconds > 60: the chunked path
LongAudioSeconds == 60

\* durationSeconds > 30, chunkDurationSec > 30: chunk_length_s and stride_length_s
HintSeconds == 30

BlankAudio == "[BLANK_AUDIO]"

ChunkError == "[CHUNK_ERROR]"

Min(a, b) == IF a < b THEN a ELSE b

\* Fault variant of IsLongAudio: 60 s exactly already takes the chunked path.
IsLongAudioFrom60(length) == length >= LongAudioSeconds * SampleRate

\* audioData.length / sampleRate > 60
IsLongAudio(length) == length > LongAudioSeconds * SampleRate

\* (chunk.length / sampleRate) > 30 ? {chunk_length_s: 30, stride_length_s: 5, ..}
StreamingHints(length) == length > HintSeconds * SampleRate

\* Fault variant of IsTooShort: nothing is skipped.
IsTooShortNever(length) == FALSE

\* chunkDurationSec < 1
IsTooShort(length) == length < SampleRate

\* Fault variant of WindowEnd: the end is not cut at the end of the buffer.
WindowEndUncut(from, length) == from + ChunkSize

\* Math.min(start + chunkSize, audioData.length)
WindowEnd(from, length) == Min(from + ChunkSize, length)

\* Fault variant of NextStart: windows that do not overlap.
NextStartNoOverlap(from) == from + ChunkSize

\* start += (chunkSize - overlapSize)
NextStart(from) == from + (ChunkSize - OverlapSize)

\* text.length of the words joined by single spaces
RECURSIVE TextLength(_)
TextLength(words) ==
    IF words = <<>> THEN 0
    ELSE Len(Head(words)) + (IF Len(words) > 1 THEN 1 ELSE 0)
         + TextLength(Tail(words))

WordSet(words) == {words[i] : i \in 1..Len(words)}

\* calculateSimilarity(text1, text2) > tenths / 10, without the division
SimilarityAbove(words1, words2, tenths) ==
    IF words1 = <<>> \/ words2 = <<>>
    THEN FALSE
    ELSE 10 * Cardinality(WordSet(words1) \cap WordSet(words2))
           > tenths * Cardinality(WordSet(words1) \cup WordSet(words2))

\* removeRepetitiveText: the last i <= min(len/2, len/2, 10) whose first i
\* words of the current text resemble the last i words of the previous one.
RemoveRepetitiveText(currentWords, previousWords) ==
    IF currentWords = <<>> \/ previousWords = <<>>
    THEN currentWords
    ELSE LET hits == {i \in 1..10 :
                        /\ 2 * i <= Len(currentWords)
                        /\ 2 * i <= Len(previousWords)
                        /\ SimilarityAbove(
                               SubSeq(currentWords, 1, i),
                               SubSeq(previousWords,
                                      Len(previousWords) - i + 1,
                                      Len(previousWords)),
                               7)}
             overlapEnd == IF hits = {} THEN 0
                           ELSE CHOOSE i \in hits : \A j \in hits : j <= i
         IN  SubSeq(currentWords, overlapEnd + 1, Len(currentWords))

\* Fault variant of IsRepetitiveText: no minimum length of the text.
IsRepetitiveTextNoMinimum(words) ==
    IF Len(words) < 5
    THEN FALSE
    ELSE LET counted == SelectSeq(words, LAMBDA w : Len(w) > 2)
             Count(w) == Cardinality({i \in 1..Len(counted) : counted[i] = w})
         IN  \E w \in WordSet(counted) : 10 * Count(w) > 4 * Len(counted)

\* isRepetitiveText.  The words are letters only, so every word longer than
\* two characters counts; a text without sentence punctuation is one phrase,
\* fewer than the three the second test needs.
IsRepetitiveText(words) ==
    IF TextLength(words) < 20 \/ Len(words) < 5
    THEN FALSE
    ELSE LET counted == SelectSeq(words, LAMBDA w : Len(w) > 2)
             Count(w) == Cardinality({i \in 1..Len(counted) : counted[i] = w})
         IN  \E w \in WordSet(counted) : 10 * Count(w) > 4 * Len(counted)

\* The length of the run of equal words that starts at words[1].
RECURSIVE RunLength(_)
RunLength(words) ==
    IF Len(words) >= 2 /\ words[2] = words[1]
    THEN 1 + RunLength(Tail(words))
    ELSE 1

\* cleanFinalText on texts without punctuation: a word repeated five times
\* or more in a row is kept once (the markers in brackets are no words);
\* the single sentence is kept and the text trimmed.
RECURSIVE CleanFinalText(_)
CleanFinalText(words) ==
    IF words = <<>>
    THEN <<>>
    ELSE LET n == RunLength(words) IN
         IF n >= 5 /\ Head(words) \notin {BlankAudio, ChunkError}
         THEN <<Head(words)>> \o CleanFinalText(SubSeq(words, n + 1, Len(words)))
         ELSE <<Head(words)>> \o CleanFinalText(Tail(words))

(***************************************************************************)
(* The inputs: buffer lengths at and around the multiples of the step,     *)
(* the ends of the windows, the 1 s, 30 s and 60 s thresholds and the 300  *)
(* s and 150 s of the examples; and what the backend may return for one    *)
(* call.                                                                   *)
(***************************************************************************)
Offsets ==
    {0, 1, SampleRate - 1, SampleRate, OverlapSize, OverlapSize + 1,
     HintSeconds * SampleRate, HintSeconds * SampleRate + 1,
     LongAudioSeconds * SampleRate, LongAudioSeconds * SampleRate + 1,
     300 * SampleRate - 2 * NextStart(0),
     150 * SampleRate - NextStart(0)}

Lengths == {k * NextStart(0) + d : k \in 0..(MaxWindows - 1), d \in Offsets}

BackendResults ==
    {[text |-> <<>>, chunks |-> <<>>],
     [text |-> <<"aaa", "bbb">>, chunks |-> <<[timestamp |-> <<10, 20>>]>>],
     [text |-> <<"bbb", "aaa">>,
      chunks |-> <<[timestamp |-> <<100, 110>>], [timestamp |-> <<110, 0>>]>>],
     [text |-> <<"aaa", "aaa", "aaa", "aaa", "aaa", "aaa">>, chunks |-> <<>>],
     [text |-> <<"aaa", "bbb", "ccc">>, chunks |-> <<[timestamp |-> <<50, 60>>]>>],
     [text |-> <<"bbb", "ccc", "ddd">>, chunks |-> <<[timestamp |-> <<0, 3>>]>>]}

\* One call of this.transcriber on audioData.slice(from, to).
NewCall(from, to) ==
    [start |-> from, end |-> to, hints |-> StreamingHints(to - from),
     status |-> "outstanding", text |-> <<>>, appended |-> <<>>]

\* The call in progress ends, its promise fulfilled with result.text = text
\* or rejected; words is what the caller makes of the text.
EndCall(how, text, words) ==
    [backendCalls EXCEPT ![Len(backendCalls)].status = how,
                         ![Len(backendCalls)].text = text,
                         ![Len(backendCalls)].appended = words]

\* result.chunks.map(...) with the offset added; chunkStart and the relative
\* times are kept with each segment as its history.
AdjustedChunks(chunks, offset, from) ==
    [i \in 1..Len(chunks) |->
        [start |-> chunks[i].timestamp[1] + offset,
         end |-> chunks[i].timestamp[2] + offset,
         relStart |-> chunks[i].timestamp[1],
         relEnd |-> chunks[i].timestamp[2],
         chunkStart |-> from]]

\* WhisperService.transcribeFile with audioData decoded: the choice of the
\* path; the chunked path enters transcribeInChunks and its loop.
WhisperTranscribeFile(length) ==
    /\ pc = "idle"
    /\ audioData' = length
    /\ IF IsLongAudio(length)
       THEN /\ pc' = "loop"
            /\ start' = 0
            /\ allText' = <<>>
            /\ allSegments' = <<>>
            /\ currentOffset' = 0
            /\ previousChunkText' = <<>>
            /\ UNCHANGED backendCalls
       ELSE /\ pc' = "single"
            /\ backendCalls' = <<NewCall(0, length)>>
            /\ UNCHANGED <<start, allText, allSegments, currentOffset,
                           previousChunkText>>
    /\ UNCHANGED <<windows, transcriptionResult, svcVars, pollVars, textVars, loadVars, audioVars>>

\* The single call returns: line 106 to 130.
SingleReturns(r) ==
    /\ pc = "single"
    /\ LET text == IF r.text = <<>> THEN <<BlankAudio>> ELSE r.text
           finalText == IF text # <<BlankAudio>> /\ IsRepetitiveText(text)
                        THEN CleanFinalText(text)
                        ELSE text
       IN  /\ transcriptionResult' =
                  [kind |-> "single", text |-> finalText,
                   segments |-> AdjustedChunks(r.chunks, 0, 0)]
           /\ backendCalls' = EndCall("returned", r.text, finalText)
    /\ pc' = "done"
    /\ UNCHANGED <<audioData, start, allText, allSegments, currentOffset,
                   previousChunkText, windows, svcVars, pollVars, textVars, loadVars, audioVars>>

\* The single call fails: transcribeFile throws 'Transcription failed'.
SingleFails ==
    /\ pc = "single"
    /\ backendCalls' = EndCall("failed", <<>>, <<>>)
    /\ pc' = "failed"
    /\ UNCHANGED <<audioData, start, allText, allSegments, currentOffset,
                   previousChunkText, windows, transcriptionResult,
                   svcVars, pollVars, textVars, loadVars, audioVars>>

(***************************************************************************)
(* The loop of transcribeInChunks, an action for each stretch between two  *)
(* awaits; an iteration that skips its window is an action of its own.     *)
(***************************************************************************)
\* Fault variant of SubmitWindow: the call is made and not awaited.
SubmitWindowNoAwait(to) ==
    /\ backendCalls' = Append(backendCalls, NewCall(start, to))
    /\ pc' = "loop"
    /\ start' = NextStart(start)

\* await this.transcriber(chunk, chunkOptions)
SubmitWindow(to) ==
    /\ backendCalls' = Append(backendCalls, NewCall(start, to))
    /\ pc' = "backend"
    /\ UNCHANGED start

\* The test start < audioData.length holds: the window, and the skip of a
\* window shorter than a second or the backend call.
LoopIteration ==
    /\ pc = "loop"
    /\ start < audioData
    /\ LET end == WindowEnd(start, audioData) IN
       /\ windows' = Append(windows, [start |-> start, end |-> end])
       /\ IF IsTooShort(end - start)
          THEN /\ start' = NextStart(start)
               /\ UNCHANGED <<pc, backendCalls>>
          ELSE SubmitWindow(end)
    /\ UNCHANGED <<audioData, allText, allSegments, currentOffset,
                   previousChunkText, transcriptionResult, svcVars, pollVars, textVars, loadVars, audioVars>>

\* The test fails: the final cleanup and the result.
LoopExit ==
    /\ pc = "loop"
    /\ ~(start < audioData)
    /\ LET cleanedText == CleanFinalText(allText) IN
       transcriptionResult' =
           [kind |-> "chunked",
            text |-> IF cleanedText = <<>> THEN <<BlankAudio>> ELSE cleanedText,
            segments |-> allSegments]
    /\ pc' = "done"
    /\ UNCHANGED <<audioData, start, allText, allSegments, currentOffset,
                   previousChunkText, windows, backendCalls, svcVars, pollVars, textVars, loadVars, audioVars>>

\* The call for the window returns r: line 191 to 229.
BackendReturns(r) ==
    /\ pc = "backend"
    /\ LET chunkText == IF previousChunkText # <<>> /\ start > 0
                        THEN RemoveRepetitiveText(r.text, previousChunkText)
                        ELSE r.text
       IN
       IF r.text # <<>>
       THEN IF IsRepetitiveText(chunkText) /\ TextLength(chunkText) < 20
            THEN \* continue
                 /\ backendCalls' = EndCall("returned", r.text, <<>>)
                 /\ start' = NextStart(start)
                 /\ pc' = "loop"
                 /\ UNCHANGED <<allText, previousChunkText, allSegments,
                                currentOffset>>
            ELSE /\ backendCalls' = EndCall("returned", r.text, chunkText)
                 /\ allText' = allText \o chunkText
                 /\ previousChunkText' = chunkText
                 /\ allSegments' = allSegments \o
                        AdjustedChunks(r.chunks, currentOffset, start)
                 /\ currentOffset' = start \div SampleRate
                 /\ pc' = "delay"
                 /\ UNCHANGED start
       ELSE /\ backendCalls' = EndCall("returned", r.text, <<>>)
            /\ currentOffset' = start \div SampleRate
            /\ pc' = "delay"
            /\ UNCHANGED <<start, allText, previousChunkText, allSegments>>
    /\ UNCHANGED <<audioData, windows, transcriptionResult, svcVars, pollVars, textVars, loadVars, audioVars>>

\* Fault variant of BackendFails: the failure leaves the loop.
BackendFailsThrows ==
    /\ pc = "backend"
    /\ backendCalls' = EndCall("failed", <<>>, <<>>)
    /\ pc' = "failed"
    /\ UNCHANGED <<audioData, start, allText, allSegments, currentOffset,
                   previousChunkText, windows, transcriptionResult,
                   svcVars, pollVars, textVars, loadVars, audioVars>>

\* Fault variant of BackendFails: the catch assigns currentOffset as well.
BackendFailsMovesOffset ==
    /\ pc = "backend"
    /\ backendCalls' = EndCall("failed", <<>>, <<>>)
    /\ allText' = Append(allText, ChunkError)
    /\ currentOffset' = start \div SampleRate
    /\ start' = NextStart(start)
    /\ pc' = "loop"
    /\ UNCHANGED <<audioData, allSegments, previousChunkText,
                   windows, transcriptionResult, svcVars, pollVars, textVars, loadVars, audioVars>>

\* The call for the window fails: the catch of line 231.
BackendFails ==
    /\ pc = "backend"
    /\ backendCalls' = EndCall("failed", <<>>, <<>>)
    /\ allText' = Append(allText, ChunkError)
    /\ start' = NextStart(start)
    /\ pc' = "loop"
    /\ UNCHANGED <<audioData, allSegments, currentOffset, previousChunkText,
                   windows, transcriptionResult, svcVars, pollVars, textVars, loadVars, audioVars>>

\* The 500 ms after a window have passed: the next iteration.
DelayElapsed ==
    /\ pc = "delay"
    /\ start' = NextStart(start)
    /\ pc' = "loop"
    /\ UNCHANGED <<audioData, allText, allSegments, currentOffset,
                   previousChunkText, windows, backendCalls,
                   transcriptionResult, svcVars, pollVars, textVars, loadVars, audioVars>>

StitchNext ==
    \/ \E length \in Lengths : WhisperTranscribeFile(length)
    \/ \E r \in BackendResults : SingleReturns(r)
    \/ SingleFails
    \/ LoopIteration
    \/ LoopExit
    \/ \E r \in BackendResults : BackendReturns(r)
    \/ BackendFails
    \/ DelayElapsed

StitchSpec == Init /\ [][StitchNext]_vars

(***************************************************************************)
(* The text functions of WhisperService on strings (calculateSimilarity,   *)
(* isRepetitiveText, removeRepetitiveText, cleanFinalText).  A string is   *)
(* the sequence of its characters; a character outside ASCII is written    *)
(* as its code point: "U5B57" is one character.  Regular expressions are   *)
(* computed as the engine matches them: \w and \b know ASCII only, a       *)
(* quantifier takes as much as it can and gives back on failure.           *)
(***************************************************************************)
LowerCase ==
    <<"a", "b", "c", "d", "e", "f", "g", "h", "i", "j", "k", "l", "m",
      "n", "o", "p", "q", "r", "s", "t", "u", "v", "w", "x", "y", "z">>

UpperCase ==
    <<"A", "B", "C", "D", "E", "F", "G", "H", "I", "J", "K", "L", "M",
      "N", "O", "P", "Q", "R", "S", "T", "U", "V", "W", "X", "Y", "Z">>

\* \w: [A-Za-z0-9_]
WordChars ==
    {LowerCase[i] : i \in 1..26} \cup {UpperCase[i] : i \in 1..26}
        \cup Digits \cup {"0", "_"}

\* [\u3040-\u309F\u30A0-\u30FF\u4E00-\u9FAF] among the characters of the
\* model: the kanji of 'jimaku' and the hiragana ha, de, su.
KanaKanji == {"U5B57", "U5E55", "U306F", "U3067", "U3059"}

\* [\u3001\u3002\uFF0C\uFF0E,.]
PhrasePunctuation == {"U3001", "U3002", "UFF0C", "UFF0E", ",", "."}

\* [.!?\u3002\uFF01\uFF1F]
SentencePunctuation == {".", "!", "?", "U3002", "UFF01", "UFF1F"}

\* String.prototype.toLowerCase
ToLowerCase(s) ==
    [i \in 1..Len(s) |->
        IF \E k \in 1..26 : UpperCase[k] = s[i]
        THEN LowerCase[CHOOSE k \in 1..26 : UpperCase[k] = s[i]]
        ELSE s[i]]

\* The number of whitespace characters from position pos on.
RECURSIVE SpacesFrom(_, _)
SpacesFrom(s, pos) ==
    IF pos <= Len(s) /\ IsSpace(s[pos]) THEN 1 + SpacesFrom(s, pos + 1) ELSE 0

\* s.split(/\s+/): the pieces between the runs of whitespace; a string that
\* begins or ends with whitespace has an empty first or last piece.
RECURSIVE SplitSpaces(_)
SplitSpaces(s) ==
    IF \A i \in 1..Len(s) : ~IsSpace(s[i])
    THEN <<s>>
    ELSE LET i == CHOOSE j \in 1..Len(s) :
                     IsSpace(s[j]) /\ \A k \in 1..(j - 1) : ~IsSpace(s[k])
         IN  <<SubSeq(s, 1, i - 1)>> \o
             SplitSpaces(SubSeq(s, i + SpacesFrom(s, i), Len(s)))

\* s.split(/[.!?\u3002\uFF01\uFF1F]\s*/)
RECURSIVE SplitSentences(_)
SplitSentences(s) ==
    IF \A i \in 1..Len(s) : s[i] \notin SentencePunctuation
    THEN <<s>>
    ELSE LET i == CHOOSE j \in 1..Len(s) :
                     /\ s[j] \in SentencePunctuation
                     /\ \A k \in 1..(j - 1) : s[k] \notin SentencePunctuation
         IN  <<SubSeq(s, 1, i - 1)>> \o
             SplitSentences(SubSeq(s, i + 1 + SpacesFrom(s, i + 1), Len(s)))

\* Array.prototype.join(separator)
RECURSIVE Join(_, _)
Join(pieces, separator) ==
    IF pieces = <<>> THEN <<>>
    ELSE IF Len(pieces) = 1 THEN pieces[1]
    ELSE pieces[1] \o separator \o Join(Tail(pieces), separator)

\* word.replace(/[^\w]/g, '')
StripNonWord(s) == SelectSeq(s, LAMBDA c : c \in WordChars)

\* new Set(array)
SetOf(pieces) == {pieces[i] : i \in 1..Len(pieces)}

\* Fault variant of CalculateSimilarity: the words of the second text that
\* the first lacks are not counted in the union.
CalculateSimilarityOfFirst(text1, text2) ==
    IF text1 = <<>> \/ text2 = <<>>
    THEN [num |-> 0, den |-> 1]
    ELSE LET words1 == SetOf(SplitSpaces(ToLowerCase(text1)))
             words2 == SetOf(SplitSpaces(ToLowerCase(text2)))
         IN  [num |-> Cardinality(words1 \cap words2),
              den |-> Cardinality(words1)]

\* calculateSimilarity: intersection.size / union.size as the fraction
\* num / den; 0 is 0 / 1.
CalculateSimilarity(text1, text2) ==
    IF text1 = <<>> \/ text2 = <<>>
    THEN [num |-> 0, den |-> 1]
    ELSE LET words1 == SetOf(SplitSpaces(ToLowerCase(text1)))
             words2 == SetOf(SplitSpaces(ToLowerCase(text2)))
         IN  [num |-> Cardinality(words1 \cap words2),
              den |-> Cardinality(words1 \cup words2)]

\* fraction > tenths / 10
MoreThan(fraction, tenths) == 10 * fraction.num > tenths * fraction.den

\* isRepetitiveText
IsRepetitiveTextStr(text) ==
    IF Len(text) < 20
    THEN FALSE
    ELSE LET words == SplitSpaces(text) IN
         IF Len(words) < 5
         THEN FALSE
         ELSE LET lowerWord(i) == StripNonWord(ToLowerCase(words[i]))
                  counted == {i \in 1..Len(words) : Len(lowerWord(i)) > 2}
                  wordCount(w) ==
                      Cardinality({i \in counted : lowerWord(i) = w})
                  totalWords ==
                      Cardinality({i \in 1..Len(words) :
                                      Len(StripNonWord(words[i])) > 2})
                  phrases == SplitSentences(text)
                  repetitiveCount ==
                      Cardinality({i \in 2..Len(phrases) :
                          MoreThan(CalculateSimilarity(phrases[i],
                                                       phrases[i - 1]), 8)})
              IN  \/ \E i \in counted :
                         10 * wordCount(lowerWord(i)) > 4 * totalWords
                  \/ /\ Len(phrases) >= 3
                     /\ 10 * repetitiveCount > 6 * Len(phrases)

\* Fault variant of OverlapLoop: the first i that matches wins.
RECURSIVE OverlapLoopFirst(_, _, _, _)
OverlapLoopFirst(currentWords, previousWords, i, overlapEnd) ==
    IF /\ 2 * i <= Len(currentWords)
       /\ 2 * i <= Len(previousWords)
       /\ i <= 10
       /\ overlapEnd = 0
    THEN LET currentStart ==
                 ToLowerCase(Join(SubSeq(currentWords, 1, i), <<SP>>))
             previousEnd ==
                 ToLowerCase(Join(SubSeq(previousWords,
                                         Len(previousWords) - i + 1,
                                         Len(previousWords)), <<SP>>))
         IN  OverlapLoopFirst(currentWords, previousWords, i + 1,
                 IF MoreThan(CalculateSimilarity(currentStart, previousEnd), 7)
                 THEN i ELSE overlapEnd)
    ELSE overlapEnd

\* removeRepetitiveText: for (let i = 1; i <= maxOverlap; i++) with
\* maxOverlap = Math.min(currentWords.length / 2, previousWords.length / 2, 10),
\* the halves not rounded.
RECURSIVE OverlapLoop(_, _, _, _)
OverlapLoop(currentWords, previousWords, i, overlapEnd) ==
    IF /\ 2 * i <= Len(currentWords)
       /\ 2 * i <= Len(previousWords)
       /\ i <= 10
    THEN LET currentStart ==
                 ToLowerCase(Join(SubSeq(currentWords, 1, i), <<SP>>))
             previousEnd ==
                 ToLowerCase(Join(SubSeq(previousWords,
                                         Len(previousWords) - i + 1,
                                         Len(previousWords)), <<SP>>))
         IN  OverlapLoop(currentWords, previousWords, i + 1,
                 IF MoreThan(CalculateSimilarity(currentStart, previousEnd), 7)
                 THEN i ELSE overlapEnd)
    ELSE overlapEnd

\* removeRepetitiveText
RemoveRepetitiveTextStr(currentText, previousText) ==
    IF currentText = <<>> \/ previousText = <<>>
    THEN currentText
    ELSE LET currentWords == SplitSpaces(currentText)
             previousWords == SplitSpaces(previousText)
             overlapEnd == OverlapLoop(currentWords, previousWords, 1, 0)
         IN  IF overlapEnd > 0
             THEN Join(SubSeq(currentWords, overlapEnd + 1, Len(currentWords)),
                       <<SP>>)
             ELSE currentText

\* \b before position p (p = Len(s) + 1 is the end of the string): exactly
\* one of the characters at p - 1 and p is a word character.
Boundary(s, p) ==
    (p - 1 >= 1 /\ s[p - 1] \in WordChars)
        # (p <= Len(s) /\ s[p] \in WordChars)

\* The string g stands in s from position pos on.
OccursAt(s, g, pos) ==
    /\ pos + Len(g) - 1 <= Len(s)
    /\ SubSeq(s, pos, pos + Len(g) - 1) = g

\* \s*(\1\s*){min,} from position pos on, with g the text of group 1, k
\* copies matched so far and w characters taken by the \s* at pos: the
\* position after the match, 0 if there is none.  Another copy is tried
\* first, then the end of the match, then a shorter \s*.
RECURSIVE RepeatsEnd(_, _, _, _, _, _)
RepeatsEnd(s, g, pos, w, k, min) ==
    LET q == pos + w
        more == IF OccursAt(s, g, q)
                THEN RepeatsEnd(s, g, q + Len(g),
                                SpacesFrom(s, q + Len(g)), k + 1, min)
                ELSE 0
    IN  IF more # 0 THEN more
        ELSE IF k >= min THEN q
        ELSE IF w > 0 THEN RepeatsEnd(s, g, pos, w - 1, k, min)
        ELSE 0

\* The characters group 1 may take before its punctuation mark: of the
\* class [\w\u3040-\u309F\u30A0-\u30FF\u4E00-\u9FAF] or, for '.', any but a
\* line end.
GroupChar(c, classOnly) ==
    IF classOnly THEN c \in WordChars \cup KanaKanji ELSE c # NL

\* The lengths of group 1 with which (\b X [punctuation])\s*(\1\s*){min,}
\* matches at p, X being [class]+ or .{1,20}.
GroupLengths(s, p, min, classOnly) ==
    IF ~Boundary(s, p)
    THEN {}
    ELSE {n \in 2..(IF classOnly THEN Len(s) - p + 1
                     ELSE Min(21, Len(s) - p + 1)) :
            /\ s[p + n - 1] \in PhrasePunctuation
            /\ \A i \in p..(p + n - 2) : GroupChar(s[i], classOnly)
            /\ RepeatsEnd(s, SubSeq(s, p, p + n - 1), p + n,
                          SpacesFrom(s, p + n), 0, min) # 0}

\* cleaned.replace(/(\b X [punctuation])\s*(\1\s*){min,}/g, '$1') from
\* position p on: the leftmost match, the longest group 1 first, is
\* replaced by group 1 and the search goes on behind it.
RECURSIVE ReplaceRepeated(_, _, _, _)
ReplaceRepeated(s, p, min, classOnly) ==
    IF p > Len(s)
    THEN <<>>
    ELSE LET lengths == GroupLengths(s, p, min, classOnly) IN
         IF lengths = {}
         THEN <<s[p]>> \o ReplaceRepeated(s, p + 1, min, classOnly)
         ELSE LET n == CHOOSE m \in lengths : \A l \in lengths : l <= m
                  g == SubSeq(s, p, p + n - 1)
              IN  g \o ReplaceRepeated(
                           s,
                           RepeatsEnd(s, g, p + n, SpacesFrom(s, p + n), 0, min),
                           min, classOnly)

\* The length of the run of word characters from position p on.
RECURSIVE WordRun(_, _)
WordRun(s, p) ==
    IF p <= Len(s) /\ s[p] \in WordChars THEN 1 + WordRun(s, p + 1) ELSE 0

\* (\s+\1)* from position pos on, case ignored: the position after the last
\* copy and the number of copies.
RECURSIVE WordRepeats(_, _, _, _)
WordRepeats(s, g, pos, k) ==
    LET w == SpacesFrom(s, pos) IN
    IF w >= 1 /\ OccursAt(ToLowerCase(s), ToLowerCase(g), pos + w)
    THEN WordRepeats(s, g, pos + w + Len(g), k + 1)
    ELSE [end |-> pos, count |-> k]

\* cleaned.replace(/\b(\w+)(\s+\1){4,}/gi, '$1') from position p on.  The
\* \s+ after group 1 needs the group to end where its word ends.
RECURSIVE ReplaceRepeatedWords(_, _)
ReplaceRepeatedWords(s, p) ==
    IF p > Len(s)
    THEN <<>>
    ELSE LET n == WordRun(s, p)
             g == SubSeq(s, p, p + n - 1)
             m == WordRepeats(s, g, p + n, 0)
         IN  IF Boundary(s, p) /\ n >= 1 /\ m.count >= 4
             THEN g \o ReplaceRepeatedWords(s, m.end)
             ELSE <<s[p]>> \o ReplaceRepeatedWords(s, p + 1)

\* The loop over the sentences of cleanFinalText: uniqueSentences.
RECURSIVE SentenceLoop(_, _, _)
SentenceLoop(sentences, consecutiveCount, lastSentence) ==
    IF sentences = <<>>
    THEN <<>>
    ELSE LET trimmedSentence == Trim(Head(sentences)) IN
         IF trimmedSentence = <<>>
         THEN SentenceLoop(Tail(sentences), consecutiveCount, lastSentence)
         ELSE IF MoreThan(CalculateSimilarity(trimmedSentence, lastSentence), 8)
              THEN (IF consecutiveCount + 1 <= 2
                    THEN <<trimmedSentence>> ELSE <<>>)
                   \o SentenceLoop(Tail(sentences), consecutiveCount + 1,
                                   trimmedSentence)
              ELSE <<trimmedSentence>>
                   \o SentenceLoop(Tail(sentences), 1, trimmedSentence)

\* cleaned.replace(/\s+/g, ' ')
RECURSIVE CollapseSpaces(_)
CollapseSpaces(s) ==
    IF s = <<>> THEN <<>>
    ELSE IF IsSpace(Head(s))
    THEN <<SP>> \o CollapseSpaces(SubSeq(s, 1 + SpacesFrom(s, 1), Len(s)))
    ELSE <<Head(s)>> \o CollapseSpaces(Tail(s))

\* cleaned.replace(/([.!?\u3002\uFF01\uFF1F])\1+/g, '$1')
RECURSIVE CollapsePunctuation(_)
CollapsePunctuation(s) ==
    IF s = <<>> THEN <<>>
    ELSE IF /\ Head(s) \in SentencePunctuation
            /\ Len(s) >= 2
            /\ s[2] = s[1]
    THEN CollapsePunctuation(Tail(s))
    ELSE <<Head(s)>> \o CollapsePunctuation(Tail(s))

\* cleanFinalText up to the split into sentences.  The fourth replacement
\* needs a '(' to match; the texts of the model have none.
RepetitionsReplaced(text) ==
    ReplaceRepeatedWords(
        ReplaceRepeated(ReplaceRepeated(text, 1, 3, TRUE), 1, 2, FALSE), 1)

\* cleanFinalText from the sentences on
SentencesJoined(uniqueSentences) ==
    Trim(CollapsePunctuation(CollapseSpaces(
        Join(uniqueSentences, <<".", SP>>))))

\* cleanFinalText
CleanFinalTextStr(text) ==
    IF Trim(text) = <<>>
    THEN text
    ELSE SentencesJoined(
             SentenceLoop(SplitSentences(RepetitionsReplaced(text)), 1, <<>>))

(***************************************************************************)
(* The texts the functions are called with, and the calls.                 *)
(***************************************************************************)
\* The strings of up to n characters of an alphabet.
Strings(alphabet, n) == UNION {[1..k -> alphabet] : k \in 0..n}

\* The texts of up to n words of a vocabulary, single spaces between.
Sentences(vocabulary, n) ==
    {Join(words, <<SP>>) : words \in UNION {[1..k -> vocabulary] : k \in 1..n}}

SimilarityTexts == Strings({"a", "A", "b", SP}, MaxSimilarityChars)

Jimaku == <<"U5B57", "U5E55", "U3067", "U3059">>

RepetitionVocabulary ==
    {<<"I">>, <<"a", "m">>, <<"a", "t">>, <<"t", "e", "s", "t">>,
     <<"w", "o", "r", "k", "s", "t", "a", "t", "i", "o", "n">>,
     Jimaku, Jimaku \o <<"U3002">>}

\* "test test test test test test test test"
TestEightTimes == Join([i \in 1..8 |-> <<"t", "e", "s", "t">>], <<SP>>)

RepetitionTexts ==
    {lead \o text : lead \in {<<>>, <<SP>>},
                    text \in Sentences(RepetitionVocabulary, MaxRepetitionWords)}
        \cup {<<>>, TestEightTimes}

OverlapVocabulary == {<<"a">>, <<"A">>, <<"b">>}

\* "hello world foo bar"
HelloWorldFooBar ==
    <<"h", "e", "l", "l", "o", SP, "w", "o", "r", "l", "d", SP,
      "f", "o", "o", SP, "b", "a", "r">>

\* "xyz hello world"
XyzHelloWorld ==
    <<"x", "y", "z", SP, "h", "e", "l", "l", "o", SP, "w", "o", "r", "l", "d">>

\* 22 times the word "a": more than twice the 10 words of the cap
LongText == Join([i \in 1..22 |-> <<"a">>], <<SP>>)

PreviousTexts ==
    Sentences(OverlapVocabulary, MaxOverlapWords)
        \cup {<<>>, XyzHelloWorld, LongText}

CurrentTexts ==
    {lead \o text : lead \in {<<>>, <<SP>>},
                    text \in Sentences(OverlapVocabulary, MaxOverlapWords)}
        \cup {<<>>, HelloWorldFooBar, LongText}

\* Four times 'jimaku ha' and the ideographic comma
JimakuHaFourTimes ==
    <<"U5B57", "U5E55", "U306F", "U3001", "U5B57", "U5E55", "U306F", "U3001",
      "U5B57", "U5E55", "U306F", "U3001", "U5B57", "U5E55", "U306F", "U3001">>

\* Texts that the replacements of cleanFinalText match.
CleanupExamples ==
    {JimakuHaFourTimes,
     <<"a", "U3001", "a", "U3001", "a", "U3001", "a", "U3001">>,
     <<"a", "U5B57", "U3001", "U5B57", "U3001", "U5B57", "U3001",
       "U5B57", "U3001">>,
     <<"a", ",", SP, "a", ",", SP, "a", ",", SP, "a">>,
     <<"a", "b", SP, "a", "b", SP, "A", "b", SP, "a", "b", SP,
       "a", "b", "c">>}

\* Sentences of five and six words that share five, and a short one.
SentenceVocabulary ==
    {<<"a", SP, "b", SP, "c", SP, "d", SP, "e">>,
     <<"a", SP, "b", SP, "c", SP, "d", SP, "e", SP, "f">>,
     <<"a", SP, "b", SP, "c", SP, "d", SP, "e", SP, "g">>,
     <<"x", SP, "y">>}

CleanupTexts ==
    Strings({"a", "U5B57", "U3001", ".", SP}, MaxCleanupChars)
        \cup CleanupExamples
        \cup {Join(sentences, <<".", SP>>) :
                sentences \in UNION {[1..k -> SentenceVocabulary] :
                                         k \in 1..MaxSentences}}

\* One call of calculateSimilarity.
CallCalculateSimilarity ==
    /\ textCall.fn = "none"
    /\ \E text1 \in SimilarityTexts : \E text2 \in SimilarityTexts :
           /\ textCall' = [fn |-> "calculateSimilarity",
                           text1 |-> text1, text2 |-> text2]
           /\ textResult' = CalculateSimilarity(text1, text2)
    /\ UNCHANGED <<svcVars, pollVars, stitchVars, loadVars, audioVars>>

SimilaritySpec == Init /\ [][CallCalculateSimilarity]_vars

\* One call of isRepetitiveText.
CallIsRepetitiveText ==
    /\ textCall.fn = "none"
    /\ \E text \in RepetitionTexts :
           /\ textCall' = [fn |-> "isRepetitiveText", text |-> text]
           /\ textResult' = IsRepetitiveTextStr(text)
    /\ UNCHANGED <<svcVars, pollVars, stitchVars, loadVars, audioVars>>

RepetitionSpec == Init /\ [][CallIsRepetitiveText]_vars

\* One call of removeRepetitiveText.
CallRemoveRepetitiveText ==
    /\ textCall.fn = "none"
    /\ \E currentText \in CurrentTexts : \E previousText \in PreviousTexts :
           /\ textCall' = [fn |-> "removeRepetitiveText",
                           currentText |-> currentText,
                           previousText |-> previousText]
           /\ textResult' = RemoveRepetitiveTextStr(currentText, previousText)
    /\ UNCHANGED <<svcVars, pollVars, stitchVars, loadVars, audioVars>>

OverlapSpec == Init /\ [][CallRemoveRepetitiveText]_vars

\* One call of cleanFinalText; the sentences and uniqueSentences of the
\* call are kept with its argument.
CallCleanFinalText ==
    /\ textCall.fn = "none"
    /\ \E text \in CleanupTexts :
           LET sentences == IF Trim(text) = <<>> THEN <<>>
                            ELSE SplitSentences(RepetitionsReplaced(text))
           IN  /\ textCall' = [fn |-> "cleanFinalText", text |-> text,
                               sentences |-> sentences,
                               uniqueSentences |->
                                   SentenceLoop(sentences, 1, <<>>)]
               /\ textResult' = CleanFinalTextStr(text)
    /\ UNCHANGED <<svcVars, pollVars, stitchVars, loadVars, audioVars>>

CleanupSpec == Init /\ [][CallCleanFinalText]_vars

(***************************************************************************)
(* The load-once guard of WhisperService: initialize() and the calls that  *)
(* await it, an action for each stretch between two awaits.                *)
(***************************************************************************)
Operations == {"initialize", "transcribeFile", "transcribeBuffer"}

\* Where a call is once the model is there: initialize has returned, the
\* others go on to transcribe.
AfterLoad(op) == IF op = "initialize" THEN "returned" ELSE "transcribing"

\* A call of initialize(), or of transcribeFile or transcribeBuffer, which
\* call initialize() if modelLoaded is false: up to `await pipeline(...)`.
CallService(op) ==
    /\ Len(callers) < MaxServiceCalls
    /\ IF modelLoaded
       THEN /\ callers' = Append(callers,
                                 [op |-> op, pc |-> AfterLoad(op), pipeline |-> 0])
            /\ UNCHANGED pipelines
       ELSE /\ pipelines' = Append(pipelines, "loading")
            /\ callers' = Append(callers,
                                 [op |-> op, pc |-> "loading",
                                  pipeline |-> Len(pipelines) + 1])
    /\ UNCHANGED <<modelLoaded, transcriber, svcVars, pollVars, stitchVars,
                   textVars, audioVars>>

\* pipeline(...) of call c is fulfilled: the assignments of lines 35 and 36.
PipelineResolves(c) ==
    /\ c \in 1..Len(callers)
    /\ callers[c].pc = "loading"
    /\ pipelines' = [pipelines EXCEPT ![callers[c].pipeline] = "loaded"]
    /\ transcriber' = callers[c].pipeline
    /\ modelLoaded' = TRUE
    /\ callers' = [callers EXCEPT ![c].pc = AfterLoad(callers[c].op)]
    /\ UNCHANGED <<svcVars, pollVars, stitchVars, textVars, audioVars>>

\* pipeline(...) of call c is rejected: initialize rethrows.
PipelineRejects(c) ==
    /\ c \in 1..Len(callers)
    /\ callers[c].pc = "loading"
    /\ pipelines' = [pipelines EXCEPT ![callers[c].pipeline] = "failed"]
    /\ callers' = [callers EXCEPT ![c].pc = "failed"]
    /\ UNCHANGED <<modelLoaded, transcriber, svcVars, pollVars, stitchVars,
                   textVars, audioVars>>

LoadNext ==
    \/ \E op \in Operations : CallService(op)
    \/ \E c \in 1..MaxServiceCalls : PipelineResolves(c)
    \/ \E c \in 1..MaxServiceCalls : PipelineRejects(c)

LoadSpec == Init /\ [][LoadNext]_vars

(***************************************************************************)
(* AudioRecorder.  An encoder is the ffmpeg process of one session; it     *)
(* ends when it is signalled, when its duration is over or when it fails,  *)
(* at any time.  Sessions are numbered in the order they are started; the  *)
(* auto-stop timers have the durations of their sessions, so they fire in  *)
(* any order.                                                              *)
(***************************************************************************)
MaxSessions == 2

MaxStopCalls == 1

\* setStopCallback
SetStopCallback ==
    /\ ~onStopCallback
    /\ onStopCallback' = TRUE
    /\ UNCHANGED <<recordingProcess, currentSession, encoders, autoStopTimers,
                   stopCalls, stopCallbacks, lastStart>>
    /\ UNCHANGED <<svcVars, pollVars, stitchVars, textVars, loadVars,
                   systemVars, realtimeVars>>

\* startRecording(config); hasDuration is whether config.duration is given.
StartRecording(hasDuration) ==
    /\ IF recordingProcess # 0
       THEN /\ lastStart' = "alreadyInProgress"
            /\ UNCHANGED <<recordingProcess, currentSession, encoders,
                           autoStopTimers>>
       ELSE /\ Len(encoders) < MaxSessions
            /\ LET sessionId == Len(encoders) + 1 IN
               /\ currentSession' = sessionId
               /\ encoders' = Append(encoders,
                                     [session |-> sessionId, alive |-> TRUE])
               /\ recordingProcess' = Len(encoders) + 1
               /\ autoStopTimers' =
                      IF hasDuration
                      THEN Append(autoStopTimers, [session |-> sessionId])
                      ELSE autoStopTimers
            /\ lastStart' = "started"
    /\ UNCHANGED <<onStopCallback, stopCalls, stopCallbacks>>
    /\ UNCHANGED <<svcVars, pollVars, stitchVars, textVars, loadVars,
                   systemVars, realtimeVars>>

\* stopRecording() up to the promise it returns, called by the auto-stop timer
\* of session timer or, with timer = 0, by the user: the listeners are put on
\* the current process and SIGINT is sent.
StopRecordingCall(timer) ==
    IF recordingProcess = 0 \/ currentSession = 0
    THEN UNCHANGED stopCalls
    ELSE stopCalls' = Append(stopCalls,
                             [timer |-> timer, process |-> recordingProcess,
                              sessionId |-> currentSession, pc |-> "exiting",
                              outcome |-> "pending"])

StopRecording ==
    /\ Len(SelectSeq(stopCalls, LAMBDA c : c.timer = 0)) < MaxStopCalls
    /\ StopRecordingCall(0)
    /\ UNCHANGED <<recordingProcess, currentSession, onStopCallback, encoders,
                   autoStopTimers, stopCallbacks, lastStart>>
    /\ UNCHANGED <<svcVars, pollVars, stitchVars, textVars, loadVars,
                   systemVars, realtimeVars>>

\* The auto-stop timer that the start of a session armed fires.
AutoStopFire(i) ==
    /\ i \in 1..Len(autoStopTimers)
    /\ autoStopTimers' = RemoveAt(autoStopTimers, i)
    /\ StopRecordingCall(autoStopTimers[i].session)
    /\ UNCHANGED <<recordingProcess, currentSession, onStopCallback, encoders,
                   stopCallbacks, lastStart>>
    /\ UNCHANGED <<svcVars, pollVars, stitchVars, textVars, loadVars,
                   systemVars, realtimeVars>>

\* Encoder p ends and 'exit' is emitted: onExit of every stopRecording call
\* that waits for it clears the 10 s timeout and arms the 500 ms timer.
EncoderExit(p) ==
    /\ p \in DOMAIN encoders
    /\ encoders[p].alive
    /\ encoders' = [encoders EXCEPT ![p].alive = FALSE]
    /\ stopCalls' = [c \in DOMAIN stopCalls |->
                        IF stopCalls[c].process = p
                           /\ stopCalls[c].pc = "exiting"
                        THEN [stopCalls[c] EXCEPT !.pc = "syncing"]
                        ELSE stopCalls[c]]
    /\ UNCHANGED <<recordingProcess, currentSession, onStopCallback,
                   autoStopTimers, stopCallbacks, lastStart>>
    /\ UNCHANGED <<svcVars, pollVars, stitchVars, textVars, loadVars,
                   systemVars, realtimeVars>>

\* The 10 s timeout of stopRecording call c: the promise is rejected, the
\* listeners stay.
StopTimeout(c) ==
    /\ c \in DOMAIN stopCalls
    /\ stopCalls[c].pc = "exiting"
    /\ stopCalls[c].outcome = "pending"
    /\ stopCalls' = [stopCalls EXCEPT ![c].outcome = "timeout"]
    /\ UNCHANGED <<recordingProcess, currentSession, onStopCallback, encoders,
                   autoStopTimers, stopCallbacks, lastStart>>
    /\ UNCHANGED <<svcVars, pollVars, stitchVars, textVars, loadVars,
                   systemVars, realtimeVars>>

\* The 500 ms after the exit are over for call c: the fields are cleared and
\* the promise is settled by whether the file exists; the auto-stop timer
\* that awaited it goes on to the stop callback when the promise resolved.
FileSynced(c, exists) ==
    /\ c \in DOMAIN stopCalls
    /\ stopCalls[c].pc = "syncing"
    /\ recordingProcess' = 0
    /\ currentSession' = 0
    /\ LET settles == stopCalls[c].outcome = "pending" IN
       /\ stopCalls' = [stopCalls EXCEPT
              ![c].pc = "done",
              ![c].outcome = IF ~settles THEN @
                             ELSE IF exists THEN "resolved" ELSE "rejected"]
       /\ stopCallbacks' =
              IF settles /\ exists /\ stopCalls[c].timer # 0 /\ onStopCallback
              THEN Append(stopCallbacks,
                          [timer |-> stopCalls[c].timer,
                           sessionId |-> stopCalls[c].sessionId])
              ELSE stopCallbacks
    /\ UNCHANGED <<onStopCallback, encoders, autoStopTimers, lastStart>>
    /\ UNCHANGED <<svcVars, pollVars, stitchVars, textVars, loadVars,
                   systemVars, realtimeVars>>

RecorderNext ==
    \/ SetStopCallback
    \/ \E hasDuration \in BOOLEAN : StartRecording(hasDuration)
    \/ StopRecording
    \/ \E i \in 1..Len(autoStopTimers) : AutoStopFire(i)
    \/ \E p \in DOMAIN encoders : EncoderExit(p)
    \/ \E c \in DOMAIN stopCalls : StopTimeout(c)
    \/ \E c \in DOMAIN stopCalls : \E exists \in BOOLEAN : FileSynced(c, exists)

RecorderSpec == Init /\ [][RecorderNext]_vars

(***************************************************************************)
(* RealtimeRecordingService.  The chunks of the MediaRecorder are numbered *)
(* in the order they are delivered.  mediaRecorder is the state of the     *)
(* recorder object: "recording", "stopping" once stop() was called and the  *)
(* last dataavailable event is still to come, "inactive" after it.  The    *)
(* segment duration that checkAndProcessSegment measures is an input.      *)
(***************************************************************************)
MaxChunks == 2

MaxSegmentCalls == 1

\* startRecording(audioStream, onTranscription)
RealtimeStartRecording ==
    /\ IF isRecording
       THEN UNCHANGED <<isRecording, mediaRecorder, audioChunks>>
       ELSE /\ audioChunks' = <<>>
            /\ mediaRecorder' = "recording"
            /\ isRecording' = TRUE
    /\ UNCHANGED <<chunksDelivered, segmentCalls>>
    /\ UNCHANGED <<svcVars, pollVars, stitchVars, textVars, loadVars,
                   recorderVars, systemVars>>

\* mediaRecorder.ondataavailable with a chunk of the given size; last is the
\* event that follows stop().
OnDataAvailable(size, last) ==
    /\ mediaRecorder = IF last THEN "stopping" ELSE "recording"
    /\ Len(chunksDelivered) < MaxChunks
    /\ chunksDelivered' = Append(chunksDelivered,
                                 [size |-> size, recording |-> isRecording])
    /\ audioChunks' = IF size > 0
                      THEN Append(audioChunks, Len(chunksDelivered) + 1)
                      ELSE audioChunks
    /\ mediaRecorder' = IF last THEN "inactive" ELSE mediaRecorder
    /\ UNCHANGED <<isRecording, segmentCalls>>
    /\ UNCHANGED <<svcVars, pollVars, stitchVars, textVars, loadVars,
                   recorderVars, systemVars>>

\* processSegment up to its first await, called with the given flags: the
\* blob is made of the chunks buffered now.
ProcessSegment(calls, chunks, again, stop) ==
    IF chunks = <<>>
    THEN calls
    ELSE Append(calls, [blob |-> chunks, pc |-> "transcribing",
                        again |-> again, stop |-> stop])

\* What the end of stopRecording assigns.
StopRecordingEnds ==
    /\ isRecording' = FALSE
    /\ audioChunks' = <<>>

\* The silence timeout fires: checkAndProcessSegment.  The duration is below
\* the minimum, between minimum and maximum, or at least the maximum, in
\* which case processSegment is called a second time after the first.
CheckAndProcessSegment(segmentDuration) ==
    /\ isRecording
    /\ Len(segmentCalls) < MaxSegmentCalls
    /\ segmentCalls' =
           IF segmentDuration = "short"
           THEN segmentCalls
           ELSE ProcessSegment(segmentCalls, audioChunks,
                               segmentDuration = "max", FALSE)
    /\ UNCHANGED <<isRecording, mediaRecorder, audioChunks, chunksDelivered>>
    /\ UNCHANGED <<svcVars, pollVars, stitchVars, textVars, loadVars,
                   recorderVars, systemVars>>

\* transcribeBuffer of call c returns: the buffer is reset; the caller goes
\* on (the second processSegment finds the buffer empty).
TranscriptionReturns(c) ==
    /\ c \in DOMAIN segmentCalls
    /\ segmentCalls[c].pc = "transcribing"
    /\ segmentCalls' = [segmentCalls EXCEPT ![c].pc = "returned"]
    /\ audioChunks' = <<>>
    /\ isRecording' = IF segmentCalls[c].stop THEN FALSE ELSE isRecording
    /\ UNCHANGED <<mediaRecorder, chunksDelivered>>
    /\ UNCHANGED <<svcVars, pollVars, stitchVars, textVars, loadVars,
                   recorderVars, systemVars>>

\* transcribeBuffer of call c fails: the catch, the buffer is kept; the
\* caller goes on.
TranscriptionFails(c) ==
    /\ c \in DOMAIN segmentCalls
    /\ segmentCalls[c].pc = "transcribing"
    /\ LET failed == [segmentCalls EXCEPT ![c].pc = "failed"] IN
       IF segmentCalls[c].stop
       THEN /\ segmentCalls' = failed
            /\ StopRecordingEnds
       ELSE /\ segmentCalls' =
                   IF segmentCalls[c].again
                   THEN ProcessSegment(failed, audioChunks, FALSE, FALSE)
                   ELSE failed
            /\ UNCHANGED <<isRecording, audioChunks>>
    /\ UNCHANGED <<mediaRecorder, chunksDelivered>>
    /\ UNCHANGED <<svcVars, pollVars, stitchVars, textVars, loadVars,
                   recorderVars, systemVars>>

\* stopRecording(): the recorder is stopped and what is buffered is
\* processed before the fields are cleared.
RealtimeStopRecording ==
    /\ IF ~isRecording
       THEN UNCHANGED <<isRecording, mediaRecorder, audioChunks, segmentCalls>>
       ELSE IF mediaRecorder = "recording"
            THEN /\ mediaRecorder' = "stopping"
                 /\ segmentCalls' =
                        ProcessSegment(segmentCalls, audioChunks, FALSE, TRUE)
                 /\ IF audioChunks = <<>>
                    THEN StopRecordingEnds
                    ELSE UNCHANGED <<isRecording, audioChunks>>
            ELSE /\ StopRecordingEnds
                 /\ UNCHANGED <<mediaRecorder, segmentCalls>>
    /\ UNCHANGED chunksDelivered
    /\ UNCHANGED <<svcVars, pollVars, stitchVars, textVars, loadVars,
                   recorderVars, systemVars>>

RealtimeNext ==
    \/ RealtimeStartRecording
    \/ \E size \in {0, 1} : \E last \in BOOLEAN : OnDataAvailable(size, last)
    \/ \E segmentDuration \in {"short", "min", "max"} :
           CheckAndProcessSegment(segmentDuration)
    \/ \E c \in DOMAIN segmentCalls : TranscriptionReturns(c)
    \/ \E c \in DOMAIN segmentCalls : TranscriptionFails(c)
    \/ RealtimeStopRecording

RealtimeSpec == Init /\ [][RealtimeNext]_vars

(***************************************************************************)
(* SystemAudioRecorder.  startMicrophoneRecording awaits the list of the   *)
(* devices between its test of recordingProcess and its spawn; an encoder  *)
(* ends when it is signalled or when it fails, at any time.                *)
(***************************************************************************)
\* startSystemAudioRecording(deviceIndex, config)
StartSystemAudioRecording ==
    /\ IF systemRecordingProcess # 0
       THEN /\ systemLastStart' = "alreadyInProgress"
            /\ UNCHANGED <<systemRecordingProcess, systemCurrentSession,
                           systemSessions, systemEncoders>>
       ELSE /\ systemSessions < MaxSessions
            /\ systemSessions' = systemSessions + 1
            /\ systemCurrentSession' = systemSessions + 1
            /\ systemEncoders' =
                   Append(systemEncoders,
                          [session |-> systemSessions + 1, alive |-> TRUE])
            /\ systemRecordingProcess' = Len(systemEncoders) + 1
            /\ systemLastStart' = "started"
    /\ UNCHANGED <<micCalls, systemStopCalls>>
    /\ UNCHANGED <<svcVars, pollVars, stitchVars, textVars, loadVars,
                   recorderVars, realtimeVars>>

\* startMicrophoneRecording(config) up to await this.getAvailableDevices()
StartMicrophoneRecording ==
    /\ IF systemRecordingProcess # 0
       THEN /\ systemLastStart' = "alreadyInProgress"
            /\ UNCHANGED <<systemCurrentSession, systemSessions, micCalls>>
       ELSE /\ systemSessions < MaxSessions
            /\ systemSessions' = systemSessions + 1
            /\ systemCurrentSession' = systemSessions + 1
            /\ micCalls' = Append(micCalls, [session |-> systemSessions + 1,
                                             pc |-> "enumerating"])
            /\ systemLastStart' = "enumerating"
    /\ UNCHANGED <<systemRecordingProcess, systemEncoders, systemStopCalls>>
    /\ UNCHANGED <<svcVars, pollVars, stitchVars, textVars, loadVars,
                   recorderVars, realtimeVars>>

\* getAvailableDevices of call c has answered: without a microphone the call
\* throws, with one it spawns the encoder.
DevicesListed(c, found) ==
    /\ c \in DOMAIN micCalls
    /\ micCalls[c].pc = "enumerating"
    /\ IF found
       THEN /\ systemEncoders' =
                   Append(systemEncoders,
                          [session |-> micCalls[c].session, alive |-> TRUE])
            /\ systemRecordingProcess' = Len(systemEncoders) + 1
            /\ micCalls' = [micCalls EXCEPT ![c].pc = "started"]
       ELSE /\ micCalls' = [micCalls EXCEPT ![c].pc = "noMicrophone"]
            /\ UNCHANGED <<systemEncoders, systemRecordingProcess>>
    /\ UNCHANGED <<systemCurrentSession, systemSessions, systemStopCalls,
                   systemLastStart>>
    /\ UNCHANGED <<svcVars, pollVars, stitchVars, textVars, loadVars,
                   recorderVars, realtimeVars>>

\* stopRecording(): SIGINT to the current process and a listener for its exit
SystemStopRecording ==
    /\ Len(systemStopCalls) < MaxStopCalls
    /\ IF systemRecordingProcess = 0 \/ systemCurrentSession = 0
       THEN UNCHANGED systemStopCalls
       ELSE systemStopCalls' =
                Append(systemStopCalls,
                       [process |-> systemRecordingProcess, pc |-> "exiting"])
    /\ UNCHANGED <<systemRecordingProcess, systemCurrentSession,
                   systemSessions, systemEncoders, micCalls, systemLastStart>>
    /\ UNCHANGED <<svcVars, pollVars, stitchVars, textVars, loadVars,
                   recorderVars, realtimeVars>>

\* Encoder p ends and 'exit' is emitted: the listener of a stopRecording call
\* that waits for it settles the call and clears the fields.
SystemEncoderExit(p) ==
    /\ p \in DOMAIN systemEncoders
    /\ systemEncoders[p].alive
    /\ systemEncoders' = [systemEncoders EXCEPT ![p].alive = FALSE]
    /\ LET waiting == {c \in DOMAIN systemStopCalls :
                          /\ systemStopCalls[c].process = p
                          /\ systemStopCalls[c].pc = "exiting"}
       IN  /\ systemStopCalls' =
                  [c \in DOMAIN systemStopCalls |->
                      IF c \in waiting
                      THEN [systemStopCalls[c] EXCEPT !.pc = "done"]
                      ELSE systemStopCalls[c]]
           /\ IF waiting # {}
              THEN /\ systemRecordingProcess' = 0
                   /\ systemCurrentSession' = 0
              ELSE UNCHANGED <<systemRecordingProcess, systemCurrentSession>>
    /\ UNCHANGED <<systemSessions, micCalls, systemLastStart>>
    /\ UNCHANGED <<svcVars, pollVars, stitchVars, textVars, loadVars,
                   recorderVars, realtimeVars>>

SystemRecorderNext ==
    \/ StartSystemAudioRecording
    \/ StartMicrophoneRecording
    \/ \E c \in DOMAIN micCalls : \E found \in BOOLEAN : DevicesListed(c, found)
    \/ SystemStopRecording
    \/ \E p \in DOMAIN systemEncoders : SystemEncoderExit(p)

SystemRecorderSpec == Init /\ [][SystemRecorderNext]_vars

(***************************************************************************)
(* Vocabulary of the properties.                                           *)
(***************************************************************************)
InQueue(id) == \E i \in 1..Len(requestQueue) : requestQueue[i].id = id

TimerArmed(id) ==
    \E i \in 1..Len(timers) : timers[i].kind = "timeout" /\ timers[i].id = id

QueueWithout(id) == SelectSeq(requestQueue, LAMBDA e : e.id # id)

NoCrash == \A p \in DOMAIN procs : procs[p].alive

\* Every timeout armed so far is still armed: none has fired.
NoTimeout ==
    Len(SelectSeq(timers, LAMBDA t : t.kind = "timeout")) = Len(accepted)

(***************************************************************************)
(* C1.  With no timeout and no crash, the k-th line handed to              *)
(* handleResponse settles the k-th request accepted by sendRequest, and a  *)
(* line that parses resolves that request with its value.                  *)
(***************************************************************************)
C1_FifoMatch ==
    (NoCrash /\ NoTimeout) =>
        \A k \in 1..Len(handled) :
            /\ k <= Len(accepted)
            /\ handled[k].id = accepted[k]
            /\ ~InQueue(accepted[k])
            /\ IF ParseJSON(handled[k].line).ok
               THEN /\ outcome[accepted[k]] = "resolved"
                    /\ result[accepted[k]] = ParseJSON(handled[k].line).value
               ELSE outcome[accepted[k]] = "invalid"

\* Two requests were pending together, their lines came in one read event.
C1_Witness ==
    /\ NoCrash /\ NoTimeout
    /\ Len(handled) >= 2
    /\ lastBatch >= 2
    /\ handled[2].id = accepted[2]
    /\ outcome[accepted[2]] = "resolved"

(***************************************************************************)
(* C2.  However the stdout stream is cut into read events, handleResponse  *)
(* has been called exactly once for each complete non-blank line of the    *)
(* characters read so far, in stream order and with the line trimmed, the  *)
(* unterminated rest of the stream is what the buffer holds, and the lines *)
(* that found a pending request settled the accepted requests in order,    *)
(* each resolved request with its own line.                                *)
(* The reference is a scan of the whole stream, character by character.    *)
(***************************************************************************)
RECURSIVE ScanStream(_, _, _)
ScanStream(stream, current, done) ==
    IF stream = <<>>
    THEN [lines |-> done, rest |-> current]
    ELSE IF Head(stream) = NL
         THEN ScanStream(Tail(stream), <<>>, Append(done, current))
         ELSE ScanStream(Tail(stream), Append(current, Head(stream)), done)

\* A line without the spaces around it (a line holds no newline).
Strip(line) ==
    LET inked == {i \in 1..Len(line) : line[i] # SP} IN
    IF inked = {}
    THEN <<>>
    ELSE SubSeq(line,
                CHOOSE i \in inked : \A j \in inked : i <= j,
                CHOOSE i \in inked : \A j \in inked : i >= j)

RECURSIVE NonBlankStripped(_)
NonBlankStripped(lines) ==
    IF lines = <<>>
    THEN <<>>
    ELSE (IF Strip(Head(lines)) = <<>> THEN <<>> ELSE <<Strip(Head(lines))>>)
         \o NonBlankStripped(Tail(lines))

HandledLines == [i \in 1..Len(handled) |-> handled[i].line]

MatchedIds ==
    LET matched == SelectSeq(handled, LAMBDA h : h.id # 0) IN
    [i \in 1..Len(matched) |-> matched[i].id]

C2_StreamSplit ==
    LET scan == ScanStream(procs[1].consumed, <<>>, <<>>) IN
    /\ HandledLines = NonBlankStripped(scan.lines)
    /\ procs[1].stdoutBuffer = scan.rest
    /\ Len(MatchedIds) <= Len(accepted)
    /\ MatchedIds = SubSeq(accepted, 1, Len(MatchedIds))
    /\ \A i \in 1..Len(handled) :
           (handled[i].id # 0 /\ outcome[handled[i].id] = "resolved")
               => result[handled[i].id] = handled[i].line

\* Two submissions, both response lines in a single read event.
C2_Witness ==
    /\ lastBatch = 2
    /\ Len(handled) = 2
    /\ outcome[1] = "resolved" /\ result[1] = <<"1">>
    /\ outcome[2] = "resolved" /\ result[2] = <<"2">>

(***************************************************************************)
(* C3.  The exit handler of a worker that was not shut down (its handle is  *)
(* still the current one) leaves the queue empty and has rejected, as      *)
(* unavailable, every request that was queued.                             *)
(***************************************************************************)
C3_ExitRejectsAll ==
    [][\A p \in DOMAIN procs :
          (~procs[p].exitSeen /\ procs'[p].exitSeen /\ daemon = p)
              => /\ requestQueue' = <<>>
                 /\ \A i \in 1..Len(requestQueue) :
                        outcome'[requestQueue[i].id] = "unavailable"]_vars

(***************************************************************************)
(* C4.  A request that was pending when a worker crashed never hangs: as   *)
(* long as it is unsettled, something that can still settle it holds its   *)
(* callbacks (its queue entry or its own armed timeout).  Nothing else     *)
(* ever calls its resolve or reject, so a state outside this is a hang.    *)
(***************************************************************************)
C4_NeverHangs ==
    \A id \in pendingAtCrash :
        outcome[id] = "pending" => (InQueue(id) \/ TimerArmed(id))

(***************************************************************************)
(* C5.  Once shutdown() has been called no worker process is spawned.      *)
(***************************************************************************)
C5_NoSpawnAfterShutdown ==
    [][shutdownCalled => Len(procs') = Len(procs)]_vars

(***************************************************************************)
(* C6.  A restarted worker is Ready (current handle, isReady true) only    *)
(* after it has itself written the readiness marker.                       *)
(***************************************************************************)
C6_ReadyAfterOwnMarker ==
    \A p \in DOMAIN procs :
        (p > 1 /\ daemon = p /\ isReady) => procs[p].loaded

(***************************************************************************)
(* C7.  A sendRequest made while the handle is null or isReady is false    *)
(* rejects its promise as not ready and changes neither the queue, nor any *)
(* worker's stdin, nor the armed timers.                                   *)
(***************************************************************************)
C7_NotReadyRejects ==
    [][\A id \in Calls :
          (outcome[id] = "unused" /\ outcome'[id] # "unused"
               /\ (daemon = 0 \/ ~isReady))
              => /\ outcome'[id] = "notReady"
                 /\ requestQueue' = requestQueue
                 /\ accepted' = accepted
                 /\ timers' = timers
                 /\ procs' = procs]_vars

C7_Witness ==
    \E id \in Calls :
        /\ outcome[id] = "notReady"
        /\ ~InQueue(id)
        /\ ~TimerArmed(id)

(***************************************************************************)
(* C8.  When the timeout of a request fires while the request is queued,   *)
(* exactly its entry leaves the queue, exactly its promise is rejected     *)
(* with the timeout error, and isReady and the handle do not change.       *)
(***************************************************************************)
C8_TimeoutFrame ==
    [][\A i \in 1..Len(timers) :
          (/\ timers' = RemoveAt(timers, i)
           /\ timers[i].kind = "timeout"
           /\ InQueue(timers[i].id))
              => /\ requestQueue' = QueueWithout(timers[i].id)
                 /\ outcome[timers[i].id] = "pending"
                 /\ outcome' = [outcome EXCEPT ![timers[i].id] = "timeout"]
                 /\ result' = result
                 /\ isReady' = isReady
                 /\ daemon' = daemon]_vars

\* Request 1 timed out while request 2 stayed queued.
C8_Witness ==
    /\ outcome[1] = "timeout"
    /\ requestQueue # <<>>
    /\ requestQueue[1].id = 2
    /\ outcome[2] = "pending"

(***************************************************************************)
(* C9.  Every request that resolves is resolved with the response the      *)
(* worker produced for that same request.                                  *)
(***************************************************************************)
C9_OwnResponse ==
    \A id \in Calls : outcome[id] = "resolved" => result[id] = <<Digit[id]>>

(***************************************************************************)
(* C10.  At most one request is written to the worker and not yet settled: *)
(* requestQueue never holds more than one entry.                           *)
(***************************************************************************)
C10_OneInFlight == Len(requestQueue) <= 1

(***************************************************************************)
(* C11.  A turn of the waiting loop of a transcribeFile call (the call     *)
(* itself, or the wake-up of one of its 100 ms sleeps) counts the sleeps   *)
(* from 0 by ones and never past 50.  With isReady false and fewer than 50 *)
(* sleeps done it sleeps again, exactly one timer armed, and touches       *)
(* nothing of the service; with isReady false after the 50th sleep it      *)
(* throws 'not ready after waiting' and leaves the queue, the pipes and    *)
(* the timers alone; with isReady true it stops and calls sendRequest      *)
(* once, which with a worker handle queues and writes exactly one request  *)
(* and without one rejects.  A call that has stopped never runs again, so  *)
(* the loop ends after at most 50 sleeps.                                  *)
(***************************************************************************)
TimesIn(seq, x) == Cardinality({i \in 1..Len(seq) : seq[i] = x})

C11_ReadyWhileWaiting ==
    \E id \in Calls :
        /\ polls[id].pc = "done"
        /\ polls[id].retries \in 1..(MaxRetries - 1)
        /\ outcome[id] = "pending"
        /\ InQueue(id)

(***************************************************************************)
(* C12.  isReady is true only if there is a current worker (the handle is  *)
(* not null and that process's exit has not been handled) that has itself  *)
(* written the readiness marker.                                           *)
(***************************************************************************)
C12_ReadyOnlyWithLiveWorker ==
    isReady => /\ daemon # 0
               /\ ~procs[daemon].exitSeen
               /\ procs[daemon].loaded

(***************************************************************************)
(* Vocabulary of the properties of the chunked transcription.              *)
(***************************************************************************)
Chunked == audioData > 60 * 16000

ChunkedDone == pc = "done" /\ transcriptionResult.kind = "chunked"

SubmittedWindows ==
    [k \in 1..Len(backendCalls) |->
        [start |-> backendCalls[k].start, end |-> backendCalls[k].end]]

(***************************************************************************)
(* C13.  The k-th iteration of the chunk loop (k from 0) has the window    *)
(* that starts at k * (1920000 - 80000), below the buffer length N, and    *)
(* ends at min(start + 1920000, N); when transcribeInChunks has returned,  *)
(* the iterations were those of all k with k * 1840000 < N and the loop    *)
(* variable has reached N.                                                 *)
(***************************************************************************)
C13_WindowSequence ==
    /\ \A k \in 1..Len(windows) :
           /\ windows[k].start = (k - 1) * (120 * 16000 - 5 * 16000)
           /\ windows[k].start < audioData
           /\ windows[k].end =
                  IF windows[k].start + 120 * 16000 < audioData
                  THEN windows[k].start + 120 * 16000
                  ELSE audioData
    /\ ChunkedDone =>
           /\ Len(windows) >= 1
           /\ Len(windows) * 1840000 >= audioData
           /\ start = Len(windows) * 1840000

\* A buffer of three windows was gone through.
C13_Witness == ChunkedDone /\ Len(windows) = 3

(***************************************************************************)
(* C14.  As stated: a buffer of 300 * 16000 samples is gone through in the *)
(* windows [0,1920000), [1840000,3360000), [3360000,4800000).              *)
(***************************************************************************)
C14_WindowsAsStated ==
    (audioData = 300 * 16000 /\ ChunkedDone) =>
        windows = <<[start |-> 0, end |-> 1920000],
                    [start |-> 1840000, end |-> 3360000],
                    [start |-> 3360000, end |-> 4800000]>>

(***************************************************************************)
(* C14, amended.  A buffer of 300 * 16000 samples is gone through, and     *)
(* submitted, in the windows [0,1920000), [1840000,3760000),               *)
(* [3680000,4800000).                                                      *)
(***************************************************************************)
C14_Windows300 ==
    (audioData = 300 * 16000 /\ ChunkedDone) =>
        /\ windows = <<[start |-> 0, end |-> 1920000],
                       [start |-> 1840000, end |-> 3760000],
                       [start |-> 3680000, end |-> 4800000]>>
        /\ SubmittedWindows = windows

C14_Witness == audioData = 300 * 16000 /\ ChunkedDone /\ Len(backendCalls) = 3

(***************************************************************************)
(* C15.  An iteration whose window is shorter than 16000 samples makes no  *)
(* backend call, leaves the accumulated text, the accumulated segments,    *)
(* previousChunkText and currentOffset as they are, and advances start by  *)
(* 1840000; no window under 16000 samples is ever among the calls.         *)
(***************************************************************************)
C15_ShortWindowSkipped ==
    [][/\ (/\ pc = "loop"
           /\ start < audioData
           /\ audioData - start < 16000)
          => /\ backendCalls' = backendCalls
             /\ allText' = allText
             /\ allSegments' = allSegments
             /\ previousChunkText' = previousChunkText
             /\ currentOffset' = currentOffset
             /\ start' = start + 1840000
       /\ Chunked' =>
             \A k \in 1..Len(backendCalls') :
                 backendCalls'[k].end - backendCalls'[k].start >= 16000
      ]_vars

\* A buffer whose last window was skipped.
C15_Witness ==
    /\ ChunkedDone
    /\ Len(windows) = Len(backendCalls) + 1
    /\ windows[Len(windows)].end - windows[Len(windows)].start < 16000

(***************************************************************************)
(* C16.  A call takes the single path, one backend call on the whole       *)
(* buffer and no loop iteration, exactly if the buffer has at most         *)
(* 60 * 16000 samples, and the chunked path otherwise; a backend call has  *)
(* the hints exactly if its audio is longer than 30 * 16000 samples.       *)
(***************************************************************************)
SinglePath ==
    \/ pc \in {"single", "failed"}
    \/ pc = "done" /\ transcriptionResult.kind = "single"

ChunkedPath == pc \in {"loop", "backend", "delay"} \/ ChunkedDone

C17_SegmentsNonDecreasing ==
    Chunked =>
        \A i \in 1..Len(allSegments) : \A j \in i..Len(allSegments) :
            allSegments[i].start <= allSegments[j].start

(***************************************************************************)
(* C18.  Every accumulated segment of a chunked transcription has its      *)
(* start and its end equal to the time relative to its chunk plus the      *)
(* start, in seconds, of the window it came from.                          *)
(***************************************************************************)
C18_SegmentTimesAbsolute ==
    Chunked =>
        \A i \in 1..Len(allSegments) :
            /\ allSegments[i].start =
                   allSegments[i].relStart + allSegments[i].chunkStart \div 16000
            /\ allSegments[i].end =
                   allSegments[i].relEnd + allSegments[i].chunkStart \div 16000

(***************************************************************************)
(* C19.  When the backend call of a window fails, ' [CHUNK_ERROR]' is      *)
(* appended to the accumulated text, the accumulated segments and          *)
(* previousChunkText stay as they are and the loop goes on with the next   *)
(* window; a chunked transcription never throws, and when it has returned  *)
(* every window of a second or more was submitted, whatever failed.        *)
(***************************************************************************)
C19_ChunkFailureContained ==
    [][/\ (/\ pc = "backend"
           /\ backendCalls'[Len(backendCalls)].status = "failed")
          => /\ allText' = Append(allText, "[CHUNK_ERROR]")
             /\ allSegments' = allSegments
             /\ previousChunkText' = previousChunkText
             /\ start' = start + 1840000
             /\ pc' = "loop"
       /\ Chunked' => pc' # "failed"
       /\ ChunkedDone' =>
             /\ Len(windows') * 1840000 >= audioData'
             /\ SubmittedWindows' =
                    SelectSeq(windows', LAMBDA w : w.end - w.start >= 16000)
      ]_vars

\* Three windows, every call failed, and the transcription returned.
C19_Witness ==
    /\ ChunkedDone
    /\ Len(backendCalls) = 3
    /\ \A k \in 1..3 : backendCalls[k].status = "failed"
    /\ transcriptionResult.text =
           <<"[CHUNK_ERROR]", "[CHUNK_ERROR]", "[CHUNK_ERROR]">>
    /\ transcriptionResult.segments = <<>>

(***************************************************************************)
(* C20.  In a chunked transcription only the latest backend call can be    *)
(* outstanding, the calls are in increasing order of start, and the calls  *)
(* that have ended are merged: the accumulated text is what they           *)
(* appended, in order, and previousChunkText is the latest text appended.  *)
(***************************************************************************)
RECURSIVE MergedText(_)
MergedText(calls) ==
    IF calls = <<>>
    THEN <<>>
    ELSE MergedText(SubSeq(calls, 1, Len(calls) - 1)) \o
         (IF calls[Len(calls)].status = "failed"
          THEN <<"[CHUNK_ERROR]">>
          ELSE calls[Len(calls)].appended)

RECURSIVE LatestAppended(_)
LatestAppended(calls) ==
    IF calls = <<>>
    THEN <<>>
    ELSE IF calls[Len(calls)].appended # <<>>
         THEN calls[Len(calls)].appended
         ELSE LatestAppended(SubSeq(calls, 1, Len(calls) - 1))

C20_Sequential ==
    Chunked =>
        /\ \A k \in 1..(Len(backendCalls) - 1) :
               /\ backendCalls[k].status # "outstanding"
               /\ backendCalls[k].start < backendCalls[k + 1].start
        /\ pc # "backend" =>
               \A k \in 1..Len(backendCalls) :
                   backendCalls[k].status # "outstanding"
        /\ allText = MergedText(backendCalls)
        /\ previousChunkText = LatestAppended(backendCalls)

\* The second window is with the backend, the text of the first merged.
C20_Witness ==
    /\ pc = "backend"
    /\ Len(backendCalls) = 2
    /\ backendCalls[1].status = "returned"
    /\ backendCalls[2].status = "outstanding"
    /\ previousChunkText = backendCalls[1].appended
    /\ previousChunkText # <<>>

(***************************************************************************)
(* C21.  A 150 s buffer whose two windows come back with texts free of     *)
(* repetition, the second beginning with the words the first ends with     *)
(* and going on after them: the final text has no span of words that is    *)
(* followed by itself (the words of the overlap are there once), and the   *)
(* segments are non-decreasing in start.                                   *)
(***************************************************************************)
\* The lengths m for which text2 begins with the last m words of text1.
OverlapLengths(text1, text2) ==
    {m \in 1..Min(Len(text1), Len(text2)) :
        SubSeq(text1, Len(text1) - m + 1, Len(text1)) = SubSeq(text2, 1, m)}

\* Some span of the words is followed at once by the same span.
HasDuplicatedSpan(words) ==
    \E n \in 1..Len(words) : \E i \in 1..Len(words) :
        /\ i + 2 * n - 1 <= Len(words)
        /\ SubSeq(words, i, i + n - 1) = SubSeq(words, i + n, i + 2 * n - 1)

OverlappingRecording ==
    /\ ChunkedDone
    /\ audioData = 150 * 16000
    /\ Len(backendCalls) = 2
    /\ \A k \in 1..2 :
           /\ backendCalls[k].status = "returned"
           /\ ~HasDuplicatedSpan(backendCalls[k].text)
    /\ \E m \in OverlapLengths(backendCalls[1].text, backendCalls[2].text) :
           m < Len(backendCalls[2].text)

C21_OverlapWordsOnce ==
    OverlappingRecording => ~HasDuplicatedSpan(transcriptionResult.text)

C21_OverlapStitched ==
    OverlappingRecording =>
        /\ ~HasDuplicatedSpan(transcriptionResult.text)
        /\ \A i \in 1..Len(transcriptionResult.segments) :
               \A j \in i..Len(transcriptionResult.segments) :
                   transcriptionResult.segments[i].start
                       <= transcriptionResult.segments[j].start

(***************************************************************************)
(* C22.  calculateSimilarity(a, b) is |T(a) \cap T(b)| / |T(a) \cup T(b)|  *)
(* with T the set of the lowercased tokens that whitespace delimits: it    *)
(* is symmetric, between 0 and 1, 0 when a or b is the empty string and 1  *)
(* for a = b not empty.                                                    *)
(***************************************************************************)
\* The maximal stretches without whitespace of the lowercased text and,
\* for a text that is empty or begins or ends with whitespace, the empty
\* token that the split on whitespace leaves at that end.
TokenSet(text) ==
    LET s == ToLowerCase(text)
        Stretch(i, j) ==
            /\ i <= j
            /\ \A k \in i..j : ~IsSpace(s[k])
            /\ i = 1 \/ IsSpace(s[i - 1])
            /\ j = Len(s) \/ IsSpace(s[j + 1])
    IN  {SubSeq(s, ij[1], ij[2]) :
            ij \in {ij \in (1..Len(s)) \X (1..Len(s)) : Stretch(ij[1], ij[2])}}
        \cup (IF s = <<>> \/ IsSpace(s[1]) \/ IsSpace(s[Len(s)])
              THEN {<<>>} ELSE {})

C22_JaccardOfTokens ==
    textCall.fn = "calculateSimilarity" =>
        LET a == textCall.text1
            b == textCall.text2
            swapped == CalculateSimilarity(b, a)
        IN  /\ textResult.den > 0
            /\ 0 <= textResult.num
            /\ textResult.num <= textResult.den
            /\ (a = <<>> \/ b = <<>>) => textResult.num = 0
            /\ (a # <<>> /\ b # <<>>) =>
                   /\ textResult.num =
                          Cardinality(TokenSet(a) \cap TokenSet(b))
                   /\ textResult.den =
                          Cardinality(TokenSet(a) \cup TokenSet(b))
            /\ textResult.num * swapped.den = swapped.num * textResult.den
            /\ (a = b /\ a # <<>>) => textResult.num = textResult.den

\* A text with an upper-case letter and a text that shares one token of
\* several with it.
C22_Witness ==
    /\ textCall.fn = "calculateSimilarity"
    /\ textCall.text1 # ToLowerCase(textCall.text1)
    /\ textCall.text1 # textCall.text2
    /\ textResult.num = 1
    /\ textResult.den = 3

(***************************************************************************)
(* C23.  isRepetitiveText is true for "test test test test test test test  *)
(* test", and false for every sentence of five words none of which is      *)
(* repeated, whatever the lengths of the words, when the text has 20       *)
(* characters or more.                                                     *)
(***************************************************************************)
FiveDistinctWords(text) ==
    LET words == SplitSpaces(text) IN
    /\ Len(words) = 5
    /\ \A i \in 1..5 : words[i] # <<>>
    /\ \A i \in 1..5 : \A j \in 1..5 : i # j => words[i] # words[j]

C23_RepetitionExamples ==
    textCall.fn = "isRepetitiveText" =>
        /\ textCall.text = TestEightTimes => textResult = TRUE
        /\ (Len(textCall.text) >= 20 /\ FiveDistinctWords(textCall.text)) =>
               textResult = FALSE

(***************************************************************************)
(* C24.  isRepetitiveText is false for every text of fewer than 20         *)
(* characters and for every text of fewer than 5 tokens; for the other     *)
(* texts it is true whenever some normalized token (lowercased, the        *)
(* punctuation stripped, longer than 2) is more than 40% of the tokens     *)
(* that qualify.                                                           *)
(***************************************************************************)
\* The token lowercased and without its punctuation marks.
NormalizedToken(word) ==
    SelectSeq(ToLowerCase(word),
              LAMBDA c : c \notin PhrasePunctuation \cup SentencePunctuation)

FrequentToken(text) ==
    LET words == SplitSpaces(text)
        qualifying == {i \in 1..Len(words) : Len(NormalizedToken(words[i])) > 2}
    IN  \E i \in qualifying :
            10 * Cardinality({j \in qualifying :
                     NormalizedToken(words[j]) = NormalizedToken(words[i])})
                > 4 * Cardinality(qualifying)

C24_RepetitionRule ==
    textCall.fn = "isRepetitiveText" =>
        /\ Len(textCall.text) < 20 => textResult = FALSE
        /\ Len(SplitSpaces(textCall.text)) < 5 => textResult = FALSE
        /\ ( /\ Len(textCall.text) >= 20
             /\ Len(SplitSpaces(textCall.text)) >= 5
             /\ FrequentToken(textCall.text) ) => textResult = TRUE

(***************************************************************************)
(* C25.  removeRepetitiveText("hello world foo bar", "xyz hello world")    *)
(* returns "foo bar".                                                      *)
(***************************************************************************)
C25_HelloWorldRemoved ==
    ( /\ textCall.fn = "removeRepetitiveText"
      /\ textCall.currentText = HelloWorldFooBar
      /\ textCall.previousText = XyzHelloWorld ) =>
        textResult = <<"f", "o", "o", SP, "b", "a", "r">>

(***************************************************************************)
(* C26.  cleanFinalText returns one 'jimaku ha' with its ideographic comma *)
(* for the text that has it four times.                                    *)
(***************************************************************************)
C26_JimakuCollapsed ==
    (textCall.fn = "cleanFinalText" /\ textCall.text = JimakuHaFourTimes) =>
        textResult = <<"U5B57", "U5E55", "U306F", "U3001">>

(***************************************************************************)
(* C27.  The sentences that survive the loop of cleanFinalText are a       *)
(* subsequence of its sentences, and no three in a row of them have the    *)
(* second more than 0.8 similar to the first and the third more than 0.8   *)
(* similar to the second.                                                  *)
(***************************************************************************)
RECURSIVE IsSubsequence(_, _)
IsSubsequence(part, whole) ==
    IF part = <<>> THEN TRUE
    ELSE IF whole = <<>> THEN FALSE
    ELSE IF Head(part) = Head(whole)
    THEN IsSubsequence(Tail(part), Tail(whole))
    ELSE IsSubsequence(part, Tail(whole))

Resembles(sentence1, sentence2) ==
    MoreThan(CalculateSimilarity(sentence1, sentence2), 8)

C27_SurvivingSentences ==
    textCall.fn = "cleanFinalText" =>
        LET trimmed == [i \in 1..Len(textCall.sentences) |->
                           Trim(textCall.sentences[i])]
            kept == textCall.uniqueSentences
        IN  /\ IsSubsequence(kept, trimmed)
            /\ \A i \in 1..(Len(kept) - 2) :
                   ~( /\ Resembles(kept[i + 1], kept[i])
                      /\ Resembles(kept[i + 2], kept[i + 1]) )

(***************************************************************************)
(* C28.  The model of a WhisperService is loaded at most once, however     *)
(* the calls of initialize, transcribeFile and transcribeBuffer are        *)
(* interleaved, also when a call starts while an earlier load is awaited;  *)
(* a load that failed leaves modelLoaded false, so that a later call       *)
(* loads again.                                                            *)
(***************************************************************************)
Loads(how) == {n \in 1..Len(pipelines) : pipelines[n] = how}

C28_LoadedAtMostOnce == Cardinality(Loads("loaded")) <= 1

\* modelLoaded is true exactly when a load has succeeded, and a call that
\* finds it false starts a load.
C28_FailedLoadLeavesUnloaded ==
    /\ modelLoaded <=> Loads("loaded") # {}
    /\ \A c \in 1..Len(callers) :
           callers[c].pipeline = 0 => Loads("loaded") # {}

C28_RetryAfterFailure ==
    /\ Len(pipelines) >= 2
    /\ pipelines[1] = "failed"
    /\ pipelines[2] = "loaded"
    /\ callers[1].pc = "failed"

(***************************************************************************)
(* C29.  The offset added to the segments of a window is the start, in     *)
(* seconds, of the latest earlier window whose processing completed        *)
(* without error or skip, 0 if there is none: currentOffset is assigned    *)
(* start / 16000 only after the segments of the window were adjusted and   *)
(* appended, and is left as it is when the call of the window fails or     *)
(* the window is skipped.                                                  *)
(***************************************************************************)
\* The call returned and the iteration ran to line 226.
Completed(call) ==
    /\ call.status = "returned"
    /\ call.text = <<>> \/ call.appended # <<>>

RECURSIVE LatestCompletedStart(_)
LatestCompletedStart(calls) ==
    IF calls = <<>>
    THEN 0
    ELSE IF Completed(calls[Len(calls)])
         THEN calls[Len(calls)].start \div 16000
         ELSE LatestCompletedStart(SubSeq(calls, 1, Len(calls) - 1))

CallsBefore(from) == SelectSeq(backendCalls, LAMBDA call : call.start < from)

C29_OffsetOfLatestCompleted ==
    Chunked =>
        /\ currentOffset = LatestCompletedStart(backendCalls)
        /\ \A i \in 1..Len(allSegments) :
               LET offset ==
                       LatestCompletedStart(CallsBefore(allSegments[i].chunkStart))
               IN  /\ allSegments[i].start = allSegments[i].relStart + offset
                   /\ allSegments[i].end = allSegments[i].relEnd + offset

\* The first window completed, the second failed, the third has its
\* segments with the offset of the first and currentOffset is its start.
C29_Witness ==
    /\ Len(backendCalls) = 3
    /\ backendCalls[1].status = "returned"
    /\ backendCalls[2].status = "failed"
    /\ backendCalls[3].status = "returned"
    /\ currentOffset = 230
    /\ \E i \in 1..Len(allSegments) :
           /\ allSegments[i].chunkStart = 3680000
           /\ allSegments[i].relStart > 0
           /\ allSegments[i].start = allSegments[i].relStart

(***************************************************************************)
(* C30.  removeRepetitiveText(current, previous) returns current without   *)
(* its first k tokens, the rest joined by single spaces, k being the       *)
(* largest i in 1..min(len(current tokens)/2, len(previous tokens)/2, 10)  *)
(* with similarity(first i tokens of current, last i tokens of previous)   *)
(* above 0.7, and current itself when there is no such i: the result is a  *)
(* suffix of the tokens of current that keeps half of them or more and     *)
(* drops 10 at most.                                                       *)
(***************************************************************************)
OverlapHits(currentTokens, previousTokens) ==
    {i \in 1..10 :
        /\ 2 * i <= Len(currentTokens)
        /\ 2 * i <= Len(previousTokens)
        /\ MoreThan(CalculateSimilarity(
                        Join(SubSeq(currentTokens, 1, i), <<SP>>),
                        Join(SubSeq(previousTokens,
                                    Len(previousTokens) - i + 1,
                                    Len(previousTokens)), <<SP>>)), 7)}

C30_LargestOverlapRemoved ==
    textCall.fn = "removeRepetitiveText" =>
        LET tokens == SplitSpaces(textCall.currentText)
            hits == OverlapHits(tokens, SplitSpaces(textCall.previousText))
            k == CHOOSE i \in hits : \A j \in hits : j <= i
        IN  /\ hits = {} => textResult = textCall.currentText
            /\ hits # {} =>
                   textResult = Join(SubSeq(tokens, k + 1, Len(tokens)), <<SP>>)
            /\ \E n \in 0..10 :
                   /\ 2 * n <= Len(tokens)
                   /\ SplitSpaces(textResult) =
                          SubSeq(tokens, n + 1, Len(tokens))

\* Two tokens are removed that match in another case, one token alone
\* matching as well.
C30_Witness ==
    /\ textCall.fn = "removeRepetitiveText"
    /\ textCall.currentText = <<"A", SP, "a", SP, "b", SP, "b">>
    /\ textCall.previousText = <<"b", SP, "b", SP, "a", SP, "a">>
    /\ textResult = <<"b", SP, "b">>

\* The cap of 10 tokens: a text of 22 equal words after itself.
C30_WitnessCap ==
    /\ textCall.fn = "removeRepetitiveText"
    /\ textCall.currentText = LongText
    /\ textCall.previousText = LongText
    /\ Len(SplitSpaces(textResult)) = 12

(***************************************************************************)
(* C31.  A worker that has written the readiness marker to stderr is Ready *)
(* once the supervisor has read all of it, however the stream is split     *)
(* into data events; isReady never becomes true without a marker written.  *)
(* The first half is C31_ReadyForEverySplit, the second C31_ReadyOnlyAfter *)
(* Marker.                                                                 *)
(***************************************************************************)
C31_ReadyForEverySplit ==
    \A p \in DOMAIN procs :
        (procs[p].loaded /\ procs[p].stderr = <<>>) => isReady

C31_ReadyOnlyAfterMarker ==
    isReady => \E p \in DOMAIN procs : procs[p].loaded

(***************************************************************************)
(* C32.  When the spawn of the current worker has failed, the supervisor   *)
(* is in the state the exit handler leaves: isReady false, the handle      *)
(* cleared, and a restart armed (or a newer worker already spawned).       *)
(***************************************************************************)
RestartArmed == \E i \in 1..Len(timers) : timers[i].kind = "restart"

C32_SpawnFailureCrashes ==
    \A p \in DOMAIN procs :
        (procs[p].failed /\ p = Len(procs) /\ ~shutdownCalled) =>
            (~isReady /\ daemon = 0 /\ RestartArmed)

(***************************************************************************)
(* C33.  In every stdout data event, the complete non-blank lines are      *)
(* handed to handleResponse one by one: each line that finds a pending     *)
(* request consumes exactly the oldest one, and a line that does not parse *)
(* rejects that request as invalid JSON; a line that finds the queue empty *)
(* and a blank line settle no request; the requests not consumed stay      *)
(* queued in order, and isReady and the worker handle do not change.       *)
(***************************************************************************)
StdoutEventOf(p) == procs'[p].consumed # procs[p].consumed

C33_LineStep ==
    \A p \in DOMAIN procs :
        StdoutEventOf(p) =>
            LET chunk == SubSeq(procs'[p].consumed,
                                Len(procs[p].consumed) + 1,
                                Len(procs'[p].consumed))
                scan  == ScanStream(procs[p].stdoutBuffer \o chunk, <<>>, <<>>)
                new   == SubSeq(handled', Len(handled) + 1, Len(handled'))
                k     == Min(Len(new), Len(requestQueue))
                taken == {requestQueue[i].id : i \in 1..k}
            IN  /\ Len(new) = Len(NonBlankStripped(scan.lines))
                /\ requestQueue' = SubSeq(requestQueue, k + 1, Len(requestQueue))
                /\ \A i \in 1..Len(new) :
                       new[i].id = IF i <= k THEN requestQueue[i].id ELSE 0
                /\ \A i \in 1..k :
                       LET id == requestQueue[i].id IN
                       (~ParseJSON(new[i].line).ok /\ outcome[id] = "pending")
                           => outcome'[id] = "invalid"
                /\ \A id \in Calls \ taken :
                       outcome'[id] = outcome[id] /\ result'[id] = result[id]
                /\ isReady' = isReady
                /\ daemon' = daemon

C33_InvalidLineRejectsOldest == [][C33_LineStep]_vars

\* Two requests are pending and one line that is not JSON has been read: the
\* first request is rejected as invalid, the second is still queued.
C33_Witness ==
    /\ Len(accepted) = 2
    /\ Len(handled) = 1
    /\ ~ParseJSON(handled[1].line).ok
    /\ handled[1].id = accepted[1]
    /\ outcome[accepted[1]] = "invalid"
    /\ Len(requestQueue) = 1
    /\ requestQueue[1].id = accepted[2]
    /\ outcome[accepted[2]] = "pending"

\* A line, and a blank line, were read while no request was pending.
C33_WitnessEmptyQueue ==
    /\ accepted = <<>>
    /\ Len(handled) = 1
    /\ handled[1].id = 0
    /\ \E i \in 1..Len(procs[1].consumed) :
           /\ procs[1].consumed[i] = NL
           /\ i > 1 => procs[1].consumed[i - 1] \in {NL, SP}

(***************************************************************************)
(* C34.  The 30 s timer of a request that is no longer queued (it was      *)
(* resolved or rejected before) has no effect when it fires: the queue and *)
(* every outcome stay as they are.                                         *)
(***************************************************************************)
C34_StaleTimerNoEffect ==
    [][\A i \in 1..Len(timers) :
          (/\ timers' = RemoveAt(timers, i)
           /\ timers[i].kind = "timeout"
           /\ ~InQueue(timers[i].id))
              => /\ requestQueue' = requestQueue
                 /\ outcome' = outcome]_vars

(***************************************************************************)
(* C35.  At most one worker process is alive at any time, and startDaemon  *)
(* runs only when every worker spawned before has ended and its end has    *)
(* been handled.                                                           *)
(***************************************************************************)
C35_SpawnStep ==
    Len(procs') > Len(procs) =>
        \A p \in DOMAIN procs :
            ~procs[p].alive /\ (procs[p].exitSeen \/ procs[p].failed)

C35_OneWorker ==
    [][/\ C35_SpawnStep
       /\ Cardinality({p \in DOMAIN procs' : procs'[p].alive}) <= 1]_vars

\* shutdown() was called, the killed worker ended and the restart spawned a
\* second worker, which is alive.
C35_Witness ==
    /\ shutdownCalled
    /\ Len(procs) = 2
    /\ ~procs[1].alive
    /\ procs[2].alive

(***************************************************************************)
(* C36.  In the chunk loop, every window for which the backend returns a   *)
(* text that is not blank is appended to allText (less the overlap that    *)
(* removeRepetitiveText cut) and becomes previousChunkText, and the loop   *)
(* goes on to the delay: the branch that discards a window flagged         *)
(* repetitive and shorter than 20 characters is never taken.               *)
(***************************************************************************)
C36_ReturnStep ==
    LET n == Len(backendCalls) IN
    (/\ pc = "backend"
     /\ backendCalls'[n].status = "returned"
     /\ backendCalls'[n].text # <<>>)
        => LET chunkText ==
                   IF previousChunkText # <<>> /\ start > 0
                   THEN RemoveRepetitiveText(backendCalls'[n].text,
                                             previousChunkText)
                   ELSE backendCalls'[n].text
           IN  /\ allText' = allText \o chunkText
               /\ previousChunkText' = chunkText
               /\ backendCalls'[n].appended = chunkText
               /\ pc' = "delay"

C36_NoWindowDiscarded == [][C36_ReturnStep]_vars

\* A window whose text, with the overlap removed, is one word five times and
\* 19 characters long was appended and is the previous text.
C36_Witness ==
    /\ pc = "delay"
    /\ Len(backendCalls) >= 2
    /\ LET words == backendCalls[Len(backendCalls)].appended IN
       /\ Len(words) = 5
       /\ TextLength(words) < 20
       /\ \A i \in 1..5 : words[i] = words[1]
       /\ previousChunkText = words
       /\ SubSeq(allText, Len(allText) - 4, Len(allText)) = words

(***************************************************************************)
(* C37.  When the chunked path has finished a buffer of N samples, the     *)
(* windows submitted to the backend cover [0, N): the first starts at 0,   *)
(* each starts no later than the end of the one before, the last ends at   *)
(* N; and a window that was skipped lies inside the window submitted       *)
(* before it.                                                              *)
(***************************************************************************)
Skipped(w) ==
    \A k \in 1..Len(backendCalls) : backendCalls[k].start # windows[w].start

Covered(x) ==
    \E k \in 1..Len(backendCalls) :
        backendCalls[k].start <= x /\ x < backendCalls[k].end

C37_SamplesCovered ==
    ChunkedDone =>
        /\ backendCalls # <<>>
        /\ backendCalls[1].start = 0
        /\ \A k \in 2..Len(backendCalls) :
               backendCalls[k].start <= backendCalls[k - 1].end
        /\ backendCalls[Len(backendCalls)].end = audioData
        /\ \A w \in 1..Len(windows) :
               /\ Covered(windows[w].start)
               /\ Covered(windows[w].end - 1)
               /\ Skipped(w) =>
                      \E k \in 1..Len(backendCalls) :
                          /\ backendCalls[k].start < windows[w].start
                          /\ \A j \in (k + 1)..Len(backendCalls) :
                                 backendCalls[j].start > windows[w].start
                          /\ backendCalls[k].end >= windows[w].end
        /\ Covered(audioData - 1)

\* A buffer of three windows whose last one, shorter than a second, was
\* skipped.
C37_Witness ==
    /\ ChunkedDone
    /\ Len(windows) = 3
    /\ Len(backendCalls) = 2
    /\ Skipped(3)
    /\ windows[3].end - windows[3].start < SampleRate

(***************************************************************************)
(* C38.  The auto-stop timer armed by the start of a session stops only    *)
(* that session, and calls the stop callback only for it.                  *)
(***************************************************************************)
C38_TimerStopsOwnSession ==
    /\ \A c \in DOMAIN stopCalls :
           stopCalls[c].timer # 0 => stopCalls[c].sessionId = stopCalls[c].timer
    /\ \A k \in DOMAIN stopCallbacks :
           stopCallbacks[k].sessionId = stopCallbacks[k].timer

\* The callback part alone.
C38_CallbackForOwnSession ==
    \A k \in DOMAIN stopCallbacks :
        stopCallbacks[k].sessionId = stopCallbacks[k].timer

(***************************************************************************)
(* C39.  Every chunk with audio that ondataavailable delivered while       *)
(* recording is still buffered or is part of the audio of a segment that   *)
(* was passed to transcription.                                            *)
(***************************************************************************)
InSegment(n) ==
    \E c \in DOMAIN segmentCalls :
        \E i \in 1..Len(segmentCalls[c].blob) : segmentCalls[c].blob[i] = n

Buffered(n) == \E i \in 1..Len(audioChunks) : audioChunks[i] = n

C39_NoChunkLost ==
    \A n \in DOMAIN chunksDelivered :
        (chunksDelivered[n].size > 0 /\ chunksDelivered[n].recording)
            => (Buffered(n) \/ InSegment(n))

\* After a transcription that failed with no stop in progress, the chunks of
\* its segment are still buffered.
C39_FailureKeepsChunks ==
    [][\A c \in DOMAIN segmentCalls :
          (/\ segmentCalls[c].pc = "transcribing"
           /\ segmentCalls'[c].pc = "failed"
           /\ ~segmentCalls[c].stop)
              => audioChunks' = audioChunks]_vars

(***************************************************************************)
(* C40.  A recorder never has more than one encoder process running.       *)
(* C40_OneEncoder says it of the SystemAudioRecorder, C40_RecorderOne      *)
(* Encoder of the AudioRecorder; C40_StartRejected is the start call made  *)
(* while recordingProcess is set: it fails and changes neither field.      *)
(***************************************************************************)
C40_OneEncoder ==
    Cardinality({p \in DOMAIN systemEncoders : systemEncoders[p].alive}) <= 1

C40_RecorderOneEncoder ==
    Cardinality({p \in DOMAIN encoders : encoders[p].alive}) <= 1

C40_StartRejected ==
    [][(systemLastStart' = "alreadyInProgress"
            /\ systemLastStart # "alreadyInProgress")
          => /\ systemRecordingProcess # 0
             /\ UNCHANGED <<systemRecordingProcess, systemCurrentSession,
                            systemEncoders>>]_vars

=============================================================================
